---- MODULE Spec2Model ----
(***************************************************************************)
(* A model of the W compiler front end (ochsec/w): the lexer, the          *)
(* recursive-descent parser, the type inference engine and the Rust code   *)
(* generator.  Source text is a sequence of one-character strings; the     *)
(* lexer and the parser are operators over the structs of the source       *)
(* (Lexer: input, position; Parser: lexer, current_token), each returning  *)
(* the updated struct together with its result.                            *)
(***************************************************************************)
EXTENDS Integers, Sequences, FiniteSets, TLC

VARIABLES
    source,        \* how the text given to Parser::new was written (never read by the front end)
    parser,        \* Parser { lexer: Lexer { input, position }, current_token }
    expressions,   \* the Vec<Expression> that Parser::parse collects
    pc,            \* "parse" | "done" | "generated" | "infer" | "inferred" | "lex"
    result,        \* what Parser::parse returned (an Option<Expression>)
    generated,     \* what RustCodeGenerator::generate returned
    generator,     \* RustCodeGenerator { indent_level, struct_definitions }
    inference,     \* TypeInference { env: TypeEnvironment { bindings, structs } }
    last,          \* the last infer_expression call: <<[expr, env (before), result]>>,
                   \* the last generate call: <<[expr, gen (before)]>>, or the last
                   \* call on lexer: <<[op, before (the lexer), token]>>
    calls,         \* number of definitions inferred, or of next_token calls made, so far
    lexer,         \* a Lexer { input, position } that is driven directly
    tokens         \* what the next_token calls on lexer returned so far, in order

vars ==
    <<source, parser, expressions, pc, result, generated, generator, inference, last, calls,
      lexer, tokens>>

-----------------------------------------------------------------------------
(* Bounds of the model *)

\* longest text of the lexeme family, in lexemes
MaxLexemes == 3
\* most binary operators in a text of the operator-chain family
MaxOps == 2
\* most bracketed items in a text of the call/definition family
MaxItems == 3
\* most definitions inferred on one TypeInference object before an expression
MaxCalls == 2
\* most arguments of a call given to infer_expression
MaxArgs == 2
\* most arms of a Match given to infer_expression or written in a text of
\* the match family
MaxArms == 2
\* most expressions of a Program given to generate
MaxProgram == 2
\* most elements of a tuple literal in a text of the tuple family
MaxTuple == 2
\* most inner brackets of a Cond in a text of the cond family
MaxBrackets == 3
\* longest text given to a lexer that is driven directly, in chunks
MaxChunks == 3
\* most next_token calls made on one lexer
MaxTokens == 4

-----------------------------------------------------------------------------
(* Characters: char::is_alphabetic, char::is_digit(10), char::is_whitespace, *)
(* char::is_uppercase and char::to_ascii_lowercase on the ASCII range.       *)

UpperLetters ==
    {"A","B","C","D","E","F","G","H","I","J","K","L","M",
     "N","O","P","Q","R","S","T","U","V","W","X","Y","Z"}

LowerLetters ==
    {"a","b","c","d","e","f","g","h","i","j","k","l","m",
     "n","o","p","q","r","s","t","u","v","w","x","y","z"}

DigitChars == {"0","1","2","3","4","5","6","7","8","9"}

is_alphabetic(c) == c \in UpperLetters \cup LowerLetters

is_digit(c) == c \in DigitChars

is_whitespace(c) == c \in {" ", "\t", "\n", "\r"}

is_uppercase(c) == c \in UpperLetters

to_ascii_lowercase(c) ==
    CASE c = "A" -> "a" [] c = "B" -> "b" [] c = "C" -> "c" [] c = "D" -> "d"
      [] c = "E" -> "e" [] c = "F" -> "f" [] c = "G" -> "g" [] c = "H" -> "h"
      [] c = "I" -> "i" [] c = "J" -> "j" [] c = "K" -> "k" [] c = "L" -> "l"
      [] c = "M" -> "m" [] c = "N" -> "n" [] c = "O" -> "o" [] c = "P" -> "p"
      [] c = "Q" -> "q" [] c = "R" -> "r" [] c = "S" -> "s" [] c = "T" -> "t"
      [] c = "U" -> "u" [] c = "V" -> "v" [] c = "W" -> "w" [] c = "X" -> "x"
      [] c = "Y" -> "y" [] c = "Z" -> "z" [] OTHER -> c

digit_value(c) ==
    CASE c = "0" -> 0 [] c = "1" -> 1 [] c = "2" -> 2 [] c = "3" -> 3
      [] c = "4" -> 4 [] c = "5" -> 5 [] c = "6" -> 6 [] c = "7" -> 7
      [] c = "8" -> 8 [] c = "9" -> 9

\* i32::MAX: the largest value str::parse::<i32> accepts
I32Max == 2147483647

\* A String of the program as one TLA+ string (for generated text).
RECURSIVE Str(_)
Str(s) == IF s = <<>> THEN "" ELSE Head(s) \o Str(Tail(s))

-----------------------------------------------------------------------------
(* Tokens (lexer.rs, enum Token).  Option<Token>::None is NoToken. *)

NoToken == [type |-> "NoToken"]

Tok(type) == [type |-> type]

TokIdentifier(s) == [type |-> "Identifier", text |-> s]

TokNumber(n) == [type |-> "Number", num |-> n]

TokString(s) == [type |-> "String", text |-> s]

TokBoolean(b) == [type |-> "Boolean", bool |-> b]

-----------------------------------------------------------------------------
(* Lexer (lexer.rs).  A lexer is [input, position]; position is 0-based as  *)
(* in the source, so the character at position p is input[p + 1].           *)

Lexer_new(input) == [input |-> input, position |-> 0]

at(lx, p) == lx.input[p + 1]

\* a loop over the blanks that steps past the end of the input
RECURSIVE skip_spaces_past_end(_)
skip_spaces_past_end(lx) ==
    IF lx.position < Len(lx.input) /\ is_whitespace(at(lx, lx.position))
    THEN skip_spaces_past_end([lx EXCEPT !.position = @ + 1])
    ELSE IF lx.position = Len(lx.input) THEN [lx EXCEPT !.position = @ + 1]
    ELSE lx

\* skip_whitespace, the inner `while ... is_whitespace()` loop
RECURSIVE skip_spaces(_)
skip_spaces(lx) ==
    IF lx.position < Len(lx.input) /\ is_whitespace(at(lx, lx.position))
    THEN skip_spaces([lx EXCEPT !.position = @ + 1])
    ELSE lx

\* a comment body in which `(*` opens a nested comment
RECURSIVE skip_nested_body(_, _)
skip_nested_body(lx, depth) ==
    IF lx.position + 1 < Len(lx.input)
    THEN IF at(lx, lx.position) = "*" /\ at(lx, lx.position + 1) = ")"
         THEN IF depth = 1 THEN [lx EXCEPT !.position = @ + 2]
              ELSE skip_nested_body([lx EXCEPT !.position = @ + 2], depth - 1)
         ELSE IF at(lx, lx.position) = "(" /\ at(lx, lx.position + 1) = "*"
         THEN skip_nested_body([lx EXCEPT !.position = @ + 2], depth + 1)
         ELSE skip_nested_body([lx EXCEPT !.position = @ + 1], depth)
    ELSE lx

skip_nested_comment_body(lx) == skip_nested_body(lx, 1)

\* skip_whitespace, the loop that looks for the closing `*)` of a comment
RECURSIVE skip_comment_body(_)
skip_comment_body(lx) ==
    IF lx.position + 1 < Len(lx.input)
    THEN IF at(lx, lx.position) = "*" /\ at(lx, lx.position + 1) = ")"
         THEN [lx EXCEPT !.position = @ + 2]
         ELSE skip_comment_body([lx EXCEPT !.position = @ + 1])
    ELSE lx

RECURSIVE skip_whitespace(_)
skip_whitespace(lx) ==
    LET after_spaces(l1) ==
            IF /\ l1.position + 1 < Len(l1.input)
               /\ at(l1, l1.position) = "("
               /\ at(l1, l1.position + 1) = "*"
            THEN skip_whitespace(skip_comment_body([l1 EXCEPT !.position = @ + 2]))
            ELSE l1
    IN after_spaces(skip_spaces(lx))

\* read_identifier: [lexer, value]
RECURSIVE read_identifier_from(_, _)
read_identifier_from(lx, identifier) ==
    IF /\ lx.position < Len(lx.input)
       /\ \/ is_alphabetic(at(lx, lx.position))
          \/ is_digit(at(lx, lx.position))
          \/ at(lx, lx.position) = "_"
    THEN read_identifier_from([lx EXCEPT !.position = @ + 1],
                              Append(identifier, at(lx, lx.position)))
    ELSE [lexer |-> lx, value |-> identifier]

read_identifier(lx) == read_identifier_from(lx, <<>>)

\* the decimal value of a run of digits, or -1 once it is above i32::MAX
RECURSIVE decimal_value(_)
decimal_value(digits) ==
    IF digits = <<>> THEN 0
    ELSE LET with_digit(front, d) ==
                 IF front < 0 \/ front > (I32Max - d) \div 10 THEN -1
                 ELSE 10 * front + d
         IN with_digit(decimal_value(SubSeq(digits, 1, Len(digits) - 1)),
                       digit_value(digits[Len(digits)]))

\* a conversion that saturates at i32::MAX where parse::<i32> fails
parse_i32_saturating(digits) ==
    LET unwrap_or_max(value) == IF value < 0 THEN I32Max ELSE value
    IN unwrap_or_max(decimal_value(digits))

\* number.parse().unwrap_or(0): parse::<i32> fails on a value above i32::MAX
parse_i32_or_zero(digits) ==
    LET unwrap_or_zero(value) == IF value < 0 THEN 0 ELSE value
    IN unwrap_or_zero(decimal_value(digits))

RECURSIVE read_number_from(_, _)
read_number_from(lx, number) ==
    IF lx.position < Len(lx.input) /\ is_digit(at(lx, lx.position))
    THEN read_number_from([lx EXCEPT !.position = @ + 1],
                          Append(number, at(lx, lx.position)))
    ELSE [lexer |-> lx, value |-> parse_i32_or_zero(number)]

read_number(lx) == read_number_from(lx, <<>>)

RECURSIVE read_string_from(_, _)
read_string_from(lx, string) ==
    IF lx.position < Len(lx.input) /\ at(lx, lx.position) # "\""
    THEN read_string_from([lx EXCEPT !.position = @ + 1],
                          Append(string, at(lx, lx.position)))
    ELSE [lexer |-> IF lx.position < Len(lx.input)
                    THEN [lx EXCEPT !.position = @ + 1] ELSE lx,
          value |-> string]

\* read_string: consume the opening quote, read to the closing one
read_string(lx) == read_string_from([lx EXCEPT !.position = @ + 1], <<>>)

\* the keyword table of next_token's alphabetic branch
keyword_or_identifier(identifier) ==
    CASE identifier = <<"L","o","g","D","e","b","u","g">> -> Tok("LogDebug")
      [] identifier = <<"L","o","g","I","n","f","o">> -> Tok("LogInfo")
      [] identifier = <<"L","o","g","W","a","r","n">> -> Tok("LogWarn")
      [] identifier = <<"L","o","g","E","r","r","o","r">> -> Tok("LogError")
      [] identifier = <<"t","r","u","e">> -> TokBoolean(TRUE)
      [] identifier = <<"f","a","l","s","e">> -> TokBoolean(FALSE)
      [] identifier = <<"N","o","n","e">> -> Tok("None")
      [] identifier = <<"S","o","m","e">> -> Tok("Some")
      [] identifier = <<"O","k">> -> Tok("Ok")
      [] identifier = <<"E","r","r">> -> Tok("Err")
      [] OTHER -> TokIdentifier(identifier)

\* the one-character tokens of next_token
single_char_token(c) ==
    CASE c = "[" -> Tok("LeftBracket")
      [] c = "]" -> Tok("RightBracket")
      [] c = "{" -> Tok("LeftBrace")
      [] c = "}" -> Tok("RightBrace")
      [] c = "(" -> Tok("LeftParen")
      [] c = ")" -> Tok("RightParen")
      [] c = "," -> Tok("Comma")
      [] c = "+" -> Tok("Plus")
      [] c = "-" -> Tok("Minus")
      [] c = "*" -> Tok("Multiply")
      [] c = "/" -> Tok("Divide")
      [] c = "^" -> Tok("Power")
      [] c = "<" -> Tok("LessThan")
      [] c = ">" -> Tok("GreaterThan")

SingleChars == {"[", "]", "{", "}", "(", ")", ",", "+", "-", "*", "/", "^", "<", ">"}

\* whether the character after position p is `=`
followed_by_equals(lx, p) == p + 1 < Len(lx.input) /\ at(lx, p + 1) = "="

\* next_token after skip_whitespace: [lexer, token]
next_token_at(lx) ==
    LET p == lx.position
        c == at(lx, p)
        step(n, t) == [lexer |-> [lx EXCEPT !.position = p + n], token |-> t]
        read(r, token(_)) == [lexer |-> r.lexer, token |-> token(r.value)]
    IN
    IF p >= Len(lx.input) THEN [lexer |-> lx, token |-> NoToken]
    ELSE IF c \in SingleChars THEN step(1, single_char_token(c))
    ELSE IF c = ":" THEN
        IF followed_by_equals(lx, p) THEN step(2, Tok("Define"))
        ELSE step(1, Tok("Colon"))
    ELSE IF c = "=" THEN
        IF followed_by_equals(lx, p) THEN step(2, Tok("Equals"))
        ELSE step(1, NoToken)
    ELSE IF c = "!" THEN
        IF followed_by_equals(lx, p) THEN step(2, Tok("NotEquals"))
        ELSE step(1, NoToken)
    ELSE IF c = "\"" THEN
        read(read_string(lx), TokString)
    ELSE IF is_alphabetic(c) THEN
        read(read_identifier(lx), keyword_or_identifier)
    ELSE IF is_digit(c) THEN
        read(read_number(lx), TokNumber)
    ELSE [lexer |-> lx, token |-> NoToken]

next_token(lx) == next_token_at(skip_whitespace(lx))

\* a peek that looks one token further than the next one
peek_second_token(lx) == next_token(next_token(lx).lexer).token

\* peek_token: next_token on a temporary lexer with the same input and position
peek_token(lx) == next_token([input |-> lx.input, position |-> lx.position]).token

-----------------------------------------------------------------------------
(* Types (ast.rs, enum Type).  A primitive type is [t |-> its name].        *)

Ty(t) == [t |-> t]

TyTuple(types) == [t |-> "Tuple", types |-> types]

TyList(inner) == [t |-> "List", inner |-> inner]

TyArray(inner, size) == [t |-> "Array", inner |-> inner, size |-> size]

TySlice(inner) == [t |-> "Slice", inner |-> inner]

TyMap(key, value) == [t |-> "Map", key |-> key, value |-> value]

TyHashSet(inner) == [t |-> "HashSet", inner |-> inner]

TyBTreeMap(key, value) == [t |-> "BTreeMap", key |-> key, value |-> value]

TyBTreeSet(inner) == [t |-> "BTreeSet", inner |-> inner]

TyFunction(params, ret) == [t |-> "Function", params |-> params, ret |-> ret]

TyOption(inner) == [t |-> "Option", inner |-> inner]

TyResult(ok_type, err_type) == [t |-> "Result", ok_type |-> ok_type, err_type |-> err_type]

TyCustom(name) == [t |-> "Custom", name |-> name]

TypeAnnotation(name, type_) == [name |-> name, type_ |-> type_]

-----------------------------------------------------------------------------
(* Expressions and patterns (ast.rs, enum Expression, enum Pattern).        *)
(* Names and string literals are sequences of characters; an Option field   *)
(* is a sequence of length 0 or 1.                                          *)

Number(n) == [kind |-> "Number", num |-> n]

Float(f) == [kind |-> "Float", float |-> f]

StringLit(s) == [kind |-> "String", text |-> s]

Boolean(b) == [kind |-> "Boolean", bool |-> b]

Tuple(elements) == [kind |-> "Tuple", elements |-> elements]

List(elements) == [kind |-> "List", elements |-> elements]

MapLit(entries) == [kind |-> "Map", entries |-> entries]

Identifier(name) == [kind |-> "Identifier", name |-> name]

FunctionCall(function, arguments) ==
    [kind |-> "FunctionCall", function |-> function, arguments |-> arguments]

FunctionDefinition(name, parameters, body) ==
    [kind |-> "FunctionDefinition", name |-> name, parameters |-> parameters, body |-> body]

Program(exprs) == [kind |-> "Program", expressions |-> exprs]

BinaryOp(left, operator, right) ==
    [kind |-> "BinaryOp", left |-> left, operator |-> operator, right |-> right]

LogCall(level, message) == [kind |-> "LogCall", level |-> level, message |-> message]

Cond(conditions, default_statements) ==
    [kind |-> "Cond", conditions |-> conditions, default_statements |-> default_statements]

ExprNone == [kind |-> "None"]

ExprSome(value) == [kind |-> "Some", value |-> value]

ExprOk(value) == [kind |-> "Ok", value |-> value]

ExprErr(error) == [kind |-> "Err", error |-> error]

Match(value, arms) == [kind |-> "Match", value |-> value, arms |-> arms]

Lambda(parameters, body) == [kind |-> "Lambda", parameters |-> parameters, body |-> body]

StructDefinition(name, fields) == [kind |-> "StructDefinition", name |-> name, fields |-> fields]

PatWildcard == [pat |-> "Wildcard"]

PatLiteral(expr) == [pat |-> "Literal", expr |-> expr]

PatVariable(name) == [pat |-> "Variable", name |-> name]

PatConstructor(name, patterns) == [pat |-> "Constructor", name |-> name, patterns |-> patterns]

PatTuple(patterns) == [pat |-> "Tuple", patterns |-> patterns]

PatList(patterns) == [pat |-> "List", patterns |-> patterns]

-----------------------------------------------------------------------------
(* Parser (parser.rs).  A parser is [lexer, current_token].  A parse        *)
(* function returns [parser, ok, value]: the parser as the call left it,    *)
(* and Some(value) (ok) or None (not ok, no value).                         *)

Parser_new(input) ==
    LET with_token(r) == [lexer |-> r.lexer, current_token |-> r.token]
    IN with_token(next_token(Lexer_new(input)))

advance(p) ==
    LET with_token(r) == [lexer |-> r.lexer, current_token |-> r.token]
    IN with_token(next_token(p.lexer))

Ret(p, v) == [parser |-> p, ok |-> TRUE, value |-> v]

Fail(p) == [parser |-> p, ok |-> FALSE]

cur(p) == p.current_token.type

NameCond == <<"C","o","n","d">>

NameMatch == <<"M","a","t","c","h">>

NameFunction == <<"F","u","n","c","t","i","o","n">>

\* expect_token: consume the expected token or fail
expect_token(p, expected) == IF cur(p) = expected THEN Ret(advance(p), <<>>) ELSE Fail(p)

PrimitiveTypeNames ==
        {
         <<"I","n","t","8">>,
         <<"I","n","t","1","6">>,
         <<"I","n","t","3","2">>,
         <<"I","n","t","6","4">>,
         <<"I","n","t","1","2","8">>,
         <<"I","n","t">>,
         <<"U","I","n","t","8">>,
         <<"U","I","n","t","1","6">>,
         <<"U","I","n","t","3","2">>,
         <<"U","I","n","t","6","4">>,
         <<"U","I","n","t","1","2","8">>,
         <<"U","I","n","t">>,
         <<"F","l","o","a","t","3","2">>,
         <<"F","l","o","a","t","6","4">>,
         <<"B","o","o","l">>,
         <<"C","h","a","r">>,
         <<"S","t","r","i","n","g">>,
         <<"i","n","t">>,
         <<"f","l","o","a","t">>,
         <<"s","t","r","i","n","g">>,
         <<"b","o","o","l">>,
         <<"c","h","a","r">>
        }

\* parse_type, the table of primitive type names
primitive_type(type_name) ==
    CASE
         type_name = <<"I","n","t","8">> -> Ty("Int8")
      [] type_name = <<"I","n","t","1","6">> -> Ty("Int16")
      [] type_name = <<"I","n","t","3","2">> -> Ty("Int32")
      [] type_name = <<"I","n","t","6","4">> -> Ty("Int64")
      [] type_name = <<"I","n","t","1","2","8">> -> Ty("Int128")
      [] type_name = <<"I","n","t">> -> Ty("Int")
      [] type_name = <<"U","I","n","t","8">> -> Ty("UInt8")
      [] type_name = <<"U","I","n","t","1","6">> -> Ty("UInt16")
      [] type_name = <<"U","I","n","t","3","2">> -> Ty("UInt32")
      [] type_name = <<"U","I","n","t","6","4">> -> Ty("UInt64")
      [] type_name = <<"U","I","n","t","1","2","8">> -> Ty("UInt128")
      [] type_name = <<"U","I","n","t">> -> Ty("UInt")
      [] type_name = <<"F","l","o","a","t","3","2">> -> Ty("Float32")
      [] type_name = <<"F","l","o","a","t","6","4">> -> Ty("Float64")
      [] type_name = <<"B","o","o","l">> -> Ty("Bool")
      [] type_name = <<"C","h","a","r">> -> Ty("Char")
      [] type_name = <<"S","t","r","i","n","g">> -> Ty("String")
      [] type_name = <<"i","n","t">> -> Ty("Int32")
      [] type_name = <<"f","l","o","a","t">> -> Ty("Float64")
      [] type_name = <<"s","t","r","i","n","g">> -> Ty("String")
      [] type_name = <<"b","o","o","l">> -> Ty("Bool")
      [] type_name = <<"c","h","a","r">> -> Ty("Char")

RECURSIVE parse_type(_)
RECURSIVE parse_generic_type(_, _)
RECURSIVE parse_tuple_types(_, _)

parse_type(p) ==
    IF cur(p) = "Identifier" THEN
        LET named(type_name, p1) ==
                IF cur(p1) = "LeftBracket" THEN parse_generic_type(p1, type_name)
                ELSE IF type_name \in PrimitiveTypeNames
                     THEN Ret(p1, primitive_type(type_name))
                     ELSE Fail(p1)
        IN named(p.current_token.text, advance(p))
    ELSE Fail(p)

\* parse_generic_type, the `loop` of the Tuple[T1, T2, ...] branch
parse_tuple_types(p, types) ==
    IF cur(p) = "RightBracket" THEN Ret(p, types)
    ELSE IF cur(p) = "Comma" THEN parse_tuple_types(advance(p), types)
    ELSE LET with_type(r) ==
                 IF r.ok THEN parse_tuple_types(r.parser, Append(types, r.value))
                 ELSE Fail(r.parser)
         IN with_type(parse_type(p))

\* Name[T]: one type, then `]`
parse_one_type_arg(p, make(_)) ==
    LET closed(r, e) == IF e.ok THEN Ret(e.parser, make(r.value)) ELSE Fail(e.parser)
        with_type(r) ==
            IF ~r.ok THEN Fail(r.parser)
            ELSE closed(r, expect_token(r.parser, "RightBracket"))
    IN with_type(parse_type(p))

\* Name[K, V]: a type, `,`, a type, then `]`
parse_two_type_args(p, make(_, _)) ==
    LET closed(k, v, e) ==
            IF e.ok THEN Ret(e.parser, make(k.value, v.value)) ELSE Fail(e.parser)
        with_value(k, v) ==
            IF ~v.ok THEN Fail(v.parser)
            ELSE closed(k, v, expect_token(v.parser, "RightBracket"))
        with_comma(k, c) ==
            IF ~c.ok THEN Fail(c.parser)
            ELSE with_value(k, parse_type(c.parser))
        with_key(k) ==
            IF ~k.ok THEN Fail(k.parser)
            ELSE with_comma(k, expect_token(k.parser, "Comma"))
    IN with_key(parse_type(p))

\* Array[T, N]
parse_array_type(p) ==
    LET closed(r, size, e) ==
            IF e.ok THEN Ret(e.parser, TyArray(r.value, size)) ELSE Fail(e.parser)
        with_comma(r, c) ==
            IF ~c.ok THEN Fail(c.parser)
            ELSE IF cur(c.parser) # "Number" THEN Fail(c.parser)
            ELSE closed(r, c.parser.current_token.num,
                        expect_token(advance(c.parser), "RightBracket"))
        with_type(r) ==
            IF ~r.ok THEN Fail(r.parser)
            ELSE with_comma(r, expect_token(r.parser, "Comma"))
    IN with_type(parse_type(p))

parse_generic_type(p0, type_name) ==
    LET closed(r, e) == IF e.ok THEN Ret(e.parser, TyTuple(r.value)) ELSE Fail(e.parser)
        with_types(r) ==
            IF ~r.ok THEN Fail(r.parser)
            ELSE closed(r, expect_token(r.parser, "RightBracket"))
        inside(p) ==
            CASE type_name = <<"T","u","p","l","e">> -> with_types(parse_tuple_types(p, <<>>))
              [] type_name = <<"L","i","s","t">> -> parse_one_type_arg(p, TyList)
              [] type_name = <<"A","r","r","a","y">> -> parse_array_type(p)
              [] type_name = <<"S","l","i","c","e">> -> parse_one_type_arg(p, TySlice)
              [] type_name = <<"H","a","s","h","S","e","t">> -> parse_one_type_arg(p, TyHashSet)
              [] type_name = <<"B","T","r","e","e","S","e","t">> -> parse_one_type_arg(p, TyBTreeSet)
              [] type_name = <<"M","a","p">> -> parse_two_type_args(p, TyMap)
              [] type_name = <<"B","T","r","e","e","M","a","p">> -> parse_two_type_args(p, TyBTreeMap)
              [] OTHER -> Fail(p)
    IN inside(advance(p0))

-----------------------------------------------------------------------------
(* Parser: expressions *)

RECURSIVE parse_expression(_)
RECURSIVE parse_function_or_call(_)
RECURSIVE parse_call_items(_, _)
RECURSIVE parse_argument_or_parameter(_)
RECURSIVE parse_binary_operation(_)
RECURSIVE parse_binary_rest(_, _)
RECURSIVE parse_primary(_)
RECURSIVE parse_cond_expression(_)
RECURSIVE parse_cond_pairs(_, _, _)
RECURSIVE parse_match_expression(_)
RECURSIVE parse_match_arms(_, _)
RECURSIVE parse_lambda_expression(_)
RECURSIVE parse_pattern(_)
RECURSIVE parse_pattern_sequence(_, _, _)
RECURSIVE parse_closed_patterns(_, _)
RECURSIVE parse_unary_constructor(_, _)
RECURSIVE parse_log_call(_, _)
RECURSIVE parse_bracketed_value(_)
RECURSIVE parse_some_expression(_)
RECURSIVE parse_ok_expression(_)
RECURSIVE parse_err_expression(_)
RECURSIVE parse_map(_)
RECURSIVE parse_map_entries(_, _)
RECURSIVE parse_tuple(_)
RECURSIVE parse_tuple_elements(_, _)
RECURSIVE parse_list(_)
RECURSIVE parse_list_elements(_, _)

\* ArgumentOrParameter
ItemExpression(e) == [shape |-> "Expression", expr |-> e]

ItemParameter(a) == [shape |-> "Parameter", param |-> a]

\* items.into_iter().filter_map(...): the parameters among the items, in order
RECURSIVE parameters_of(_)
parameters_of(items) ==
    IF items = <<>> THEN <<>>
    ELSE IF Head(items).shape = "Parameter"
         THEN <<Head(items).param>> \o parameters_of(Tail(items))
         ELSE parameters_of(Tail(items))

\* a call that keeps the name of each parameter-shaped item as an argument
\* (what C3 rules out)
RECURSIVE arguments_of_all(_)
arguments_of_all(items) ==
    IF items = <<>> THEN <<>>
    ELSE IF Head(items).shape = "Expression"
         THEN <<Head(items).expr>> \o arguments_of_all(Tail(items))
         ELSE <<Identifier(Head(items).param.name)>> \o arguments_of_all(Tail(items))

\* items.into_iter().filter_map(...): the expressions among the items, in order
RECURSIVE arguments_of(_)
arguments_of(items) ==
    IF items = <<>> THEN <<>>
    ELSE IF Head(items).shape = "Expression"
         THEN <<Head(items).expr>> \o arguments_of(Tail(items))
         ELSE arguments_of(Tail(items))

\* parse_expression, the peek for `[` after an identifier
is_function_syntax(p) == peek_token(p.lexer).type = "LeftBracket"

\* The `if let Some(Token::Identifier(id))` block either returns r from
\* inside it or falls out of it with the parser as it left it; what falls
\* out reaches the one call of parse_binary_operation at the end.
parse_expression(p) ==
    LET id == p.current_token.text
        returns(r) == [returned |-> TRUE, result |-> r]
        falls_through(q) == [returned |-> FALSE, parser |-> q]
        function_or_call(r) == IF r.ok THEN returns(r) ELSE falls_through(r.parser)
        after_block(block) ==
            IF block.returned THEN block.result ELSE parse_binary_operation(block.parser)
    IN after_block(
           IF cur(p) = "Identifier" THEN
               IF id = NameCond THEN returns(parse_cond_expression(advance(p)))
               ELSE IF id = NameMatch THEN returns(parse_match_expression(advance(p)))
               ELSE IF id = NameFunction THEN returns(parse_lambda_expression(advance(p)))
               ELSE IF is_function_syntax(p)
                    THEN function_or_call(parse_function_or_call(p))
                    ELSE falls_through(p)
           ELSE falls_through(p))

\* parse_function_or_call, the `loop` over the bracketed items
parse_call_items(p, items) ==
    IF cur(p) = "RightBracket" THEN Ret(advance(p), items)
    ELSE IF cur(p) = "Comma" THEN parse_call_items(advance(p), items)
    ELSE LET with_item(r) ==
                 IF r.ok THEN parse_call_items(r.parser, Append(items, r.value))
                 ELSE Fail(r.parser)
         IN with_item(parse_argument_or_parameter(p))

\* parse_function_or_call, the decision taken after the closing `]`
finish_function_or_call(p, name, items) ==
    IF cur(p) = "Define" THEN
        LET with_body(body) ==
                IF body.ok
                THEN Ret(body.parser,
                         FunctionDefinition(name, parameters_of(items), body.value))
                ELSE Fail(body.parser)
        IN with_body(parse_expression(advance(p)))
    ELSE Ret(p, FunctionCall(Identifier(name), arguments_of(items)))

parse_function_or_call(p) ==
    IF cur(p) # "Identifier" THEN Fail(p)
    ELSE LET with_items(name, r) ==
                 IF r.ok THEN finish_function_or_call(r.parser, name, r.value)
                 ELSE Fail(r.parser)
             named(name, p1) ==
                 IF cur(p1) # "LeftBracket" THEN Fail(p1)
                 ELSE with_items(name, parse_call_items(advance(p1), <<>>))
         IN named(p.current_token.text, advance(p))

parse_argument_or_parameter(p) ==
    LET as_item(r) ==
            IF r.ok THEN Ret(r.parser, ItemExpression(r.value)) ELSE Fail(r.parser)
        with_type(param_name, ty) ==
            IF ty.ok
            THEN Ret(ty.parser, ItemParameter(TypeAnnotation(param_name, ty.value)))
            ELSE as_item(parse_expression(ty.parser))
    IN
    IF cur(p) = "Identifier" /\ peek_token(p.lexer).type = "Colon"
    THEN with_type(p.current_token.text, parse_type(advance(advance(p))))
    ELSE as_item(parse_expression(p))

OperatorTokens ==
    {"Plus", "Minus", "Multiply", "Divide", "Power",
     "Equals", "NotEquals", "LessThan", "GreaterThan"}

\* parse_binary_operation, the token-to-Operator table
operator_of(type) ==
    CASE type = "Plus" -> "Add"
      [] type = "Minus" -> "Subtract"
      [] type = "Multiply" -> "Multiply"
      [] type = "Divide" -> "Divide"
      [] type = "Power" -> "Power"
      [] type = "Equals" -> "Equals"
      [] type = "NotEquals" -> "NotEquals"
      [] type = "LessThan" -> "LessThan"
      [] type = "GreaterThan" -> "GreaterThan"

\* a parser in which the later operator binds tighter (what C2 rules out)
join_operand_right(left, operator, right) ==
    IF left.kind = "BinaryOp"
    THEN BinaryOp(left.left, left.operator, BinaryOp(left.right, operator, right))
    ELSE BinaryOp(left, operator, right)

\* parse_binary_operation, one more operand joined to the tree built so far
join_operand(left, operator, right) == BinaryOp(left, operator, right)

\* parse_binary_operation, the `while let` loop
parse_binary_rest(p, left) ==
    IF cur(p) \in OperatorTokens THEN
        LET with_right(r) ==
                IF r.ok
                THEN parse_binary_rest(r.parser,
                                       join_operand(left, operator_of(cur(p)), r.value))
                ELSE Fail(r.parser)
        IN with_right(parse_primary(advance(p)))
    ELSE Ret(p, left)

parse_binary_operation(p) ==
    LET with_left(r) == IF r.ok THEN parse_binary_rest(r.parser, r.value) ELSE Fail(r.parser)
    IN with_left(parse_primary(p))

LogTokens == {"LogDebug", "LogInfo", "LogWarn", "LogError"}

\* parse_primary, the LogLevel of each log token
log_level(type) ==
    CASE type = "LogDebug" -> "Debug"
      [] type = "LogInfo" -> "Info"
      [] type = "LogWarn" -> "Warn"
      [] type = "LogError" -> "Error"

\* parse_primary: the arms that call self.advance() (p1 is the parser after
\* it), then the three that hand the unconsumed token to their function
parse_primary(p) ==
    LET t == p.current_token
        advanced(p1) ==
            CASE t.type = "Number" -> Ret(p1, Number(t.num))
              [] t.type = "Float" -> Ret(p1, Float(t.float))
              [] t.type = "String" -> Ret(p1, StringLit(t.text))
              [] t.type = "Boolean" -> Ret(p1, Boolean(t.bool))
              [] t.type = "Identifier" ->
                    IF t.text = NameCond THEN parse_cond_expression(p1)
                    ELSE Ret(p1, Identifier(t.text))
              [] t.type \in LogTokens -> parse_log_call(p1, log_level(t.type))
              [] t.type = "None" -> Ret(p1, ExprNone)
              [] t.type = "Some" -> parse_some_expression(p1)
              [] t.type = "Ok" -> parse_ok_expression(p1)
              [] t.type = "Err" -> parse_err_expression(p1)
    IN
    CASE t.type = "LeftParen" -> parse_tuple(p)
      [] t.type = "LeftBracket" -> parse_list(p)
      [] t.type = "LeftBrace" -> parse_map(p)
      [] t.type \in {"Number", "Float", "String", "Boolean", "Identifier",
                     "None", "Some", "Ok", "Err"} \cup LogTokens -> advanced(advance(p))
      [] OTHER -> Fail(p)

\* `[` expression `]`, as parse_log_call, parse_some_expression,
\* parse_ok_expression and parse_err_expression each spell it out
parse_bracketed_value(p) ==
    IF cur(p) # "LeftBracket" THEN Fail(p)
    ELSE LET with_value(r) ==
                 IF ~r.ok THEN Fail(r.parser)
                 ELSE IF cur(r.parser) = "RightBracket" THEN Ret(advance(r.parser), r.value)
                 ELSE Fail(r.parser)
         IN with_value(parse_expression(advance(p)))

parse_log_call(p, level) ==
    LET with_value(r) == IF r.ok THEN Ret(r.parser, LogCall(level, r.value)) ELSE Fail(r.parser)
    IN with_value(parse_bracketed_value(p))

parse_some_expression(p) ==
    LET with_value(r) == IF r.ok THEN Ret(r.parser, ExprSome(r.value)) ELSE Fail(r.parser)
    IN with_value(parse_bracketed_value(p))

parse_ok_expression(p) ==
    LET with_value(r) == IF r.ok THEN Ret(r.parser, ExprOk(r.value)) ELSE Fail(r.parser)
    IN with_value(parse_bracketed_value(p))

parse_err_expression(p) ==
    LET with_value(r) == IF r.ok THEN Ret(r.parser, ExprErr(r.value)) ELSE Fail(r.parser)
    IN with_value(parse_bracketed_value(p))

\* parse_map, the `while let` loop; the result is the loop's exit
parse_map_entries(p, entries) ==
    IF cur(p) = "NoToken" \/ cur(p) = "RightBrace" THEN Ret(p, entries)
    ELSE LET with_entry(q, more) ==
                 IF cur(q) = "Comma" THEN parse_map_entries(advance(q), more)
                 ELSE IF cur(q) = "RightBrace" THEN Ret(q, more)
                 ELSE Fail(q)
             with_value(key, value) ==
                 IF ~value.ok THEN Fail(value.parser)
                 ELSE with_entry(value.parser, Append(entries, <<key.value, value.value>>))
             with_key(key) ==
                 IF ~key.ok THEN Fail(key.parser)
                 ELSE IF cur(key.parser) # "Colon" THEN Fail(key.parser)
                 ELSE with_value(key, parse_expression(advance(key.parser)))
         IN with_key(parse_expression(p))

parse_map(p) ==
    IF cur(p) # "LeftBrace" THEN Fail(p)
    ELSE LET with_entries(r) ==
                 IF r.ok THEN Ret(advance(r.parser), MapLit(r.value)) ELSE Fail(r.parser)
         IN with_entries(parse_map_entries(advance(p), <<>>))

\* parse_tuple, the `while let` loop; the result is the loop's exit
parse_tuple_elements(p, elements) ==
    IF cur(p) = "NoToken" \/ cur(p) = "RightParen" THEN Ret(p, elements)
    ELSE LET with_element(elem) ==
                 IF ~elem.ok THEN Fail(elem.parser)
                 ELSE IF cur(elem.parser) = "Comma"
                      THEN parse_tuple_elements(advance(elem.parser),
                                           Append(elements, elem.value))
                 ELSE IF cur(elem.parser) = "RightParen"
                      THEN Ret(elem.parser, Append(elements, elem.value))
                 ELSE Fail(elem.parser)
         IN with_element(parse_expression(p))

\* a tuple literal parsed as a list (what C16 rules out)
parse_tuple_as_list(p) ==
    IF cur(p) # "LeftParen" THEN Fail(p)
    ELSE LET with_elements(r) ==
                 IF r.ok THEN Ret(advance(r.parser), List(r.value)) ELSE Fail(r.parser)
         IN with_elements(parse_tuple_elements(advance(p), <<>>))

parse_tuple(p) ==
    IF cur(p) # "LeftParen" THEN Fail(p)
    ELSE LET with_elements(r) ==
                 IF r.ok THEN Ret(advance(r.parser), Tuple(r.value)) ELSE Fail(r.parser)
         IN with_elements(parse_tuple_elements(advance(p), <<>>))

\* parse_list, the `while let` loop; the result is the loop's exit
parse_list_elements(p, elements) ==
    IF cur(p) = "NoToken" \/ cur(p) = "RightBracket" THEN Ret(p, elements)
    ELSE LET with_element(elem) ==
                 IF ~elem.ok THEN Fail(elem.parser)
                 ELSE IF cur(elem.parser) = "Comma"
                      THEN parse_list_elements(advance(elem.parser),
                                          Append(elements, elem.value))
                 ELSE IF cur(elem.parser) = "RightBracket"
                      THEN Ret(elem.parser, Append(elements, elem.value))
                 ELSE Fail(elem.parser)
         IN with_element(parse_expression(p))

parse_list(p) ==
    IF cur(p) # "LeftBracket" THEN Fail(p)
    ELSE LET with_elements(r) ==
                 IF r.ok THEN Ret(advance(r.parser), List(r.value)) ELSE Fail(r.parser)
         IN with_elements(parse_list_elements(advance(p), <<>>))

-----------------------------------------------------------------------------
(* Parser: Cond, Match, Function (lambda) and patterns *)

\* the loop of parse_cond_expression, were the first default kept
RECURSIVE parse_cond_pairs_first_default(_, _, _)
parse_cond_pairs_first_default(p, conditions, default_statements) ==
    IF cur(p) = "NoToken" \/ cur(p) = "RightBracket"
    THEN Ret(p, <<conditions, default_statements>>)
    ELSE IF cur(p) # "LeftBracket" THEN Fail(p)
    ELSE LET with_statements(first_expr, statements) ==
                 IF ~statements.ok THEN Fail(statements.parser)
                 ELSE IF cur(statements.parser) # "RightBracket" THEN Fail(statements.parser)
                 ELSE parse_cond_pairs_first_default(
                          advance(statements.parser),
                          Append(conditions, <<first_expr.value, statements.value>>),
                          default_statements)
             with_first(first_expr) ==
                 IF ~first_expr.ok THEN Fail(first_expr.parser)
                 ELSE IF cur(first_expr.parser) = "RightBracket"
                      THEN parse_cond_pairs_first_default(
                               advance(first_expr.parser), conditions,
                               IF default_statements = <<>> THEN <<first_expr.value>>
                               ELSE default_statements)
                 ELSE with_statements(first_expr, parse_expression(first_expr.parser))
         IN with_first(parse_expression(advance(p)))

\* parse_cond_expression, the `while let` loop; the result is the loop's
\* exit, with value = <<conditions, default_statements>>
parse_cond_pairs(p, conditions, default_statements) ==
    IF cur(p) = "NoToken" \/ cur(p) = "RightBracket"
    THEN Ret(p, <<conditions, default_statements>>)
    ELSE IF cur(p) # "LeftBracket" THEN Fail(p)
    ELSE LET with_statements(first_expr, statements) ==
                 IF ~statements.ok THEN Fail(statements.parser)
                 ELSE IF cur(statements.parser) # "RightBracket" THEN Fail(statements.parser)
                 ELSE parse_cond_pairs(advance(statements.parser),
                                       Append(conditions,
                                              <<first_expr.value, statements.value>>),
                                       default_statements)
             with_first(first_expr) ==
                 IF ~first_expr.ok THEN Fail(first_expr.parser)
                 ELSE IF cur(first_expr.parser) = "RightBracket"
                      THEN parse_cond_pairs(advance(first_expr.parser), conditions,
                                            <<first_expr.value>>)
                 ELSE with_statements(first_expr, parse_expression(first_expr.parser))
         IN with_first(parse_expression(advance(p)))

parse_cond_expression(p) ==
    IF cur(p) # "LeftBracket" THEN Fail(p)
    ELSE LET with_pairs(r) ==
                 IF ~r.ok THEN Fail(r.parser)
                 ELSE IF cur(r.parser) # "RightBracket" THEN Fail(r.parser)
                 ELSE Ret(advance(r.parser), Cond(r.value[1], r.value[2]))
         IN with_pairs(parse_cond_pairs(advance(p), <<>>, <<>>))

\* parse_match_expression, the `while let` loop over the arms
parse_match_arms(p, arms) ==
    IF cur(p) = "NoToken" \/ cur(p) = "RightBracket" THEN Ret(p, arms)
    ELSE IF cur(p) # "LeftBracket" THEN Fail(p)
    ELSE LET skip_comma(p1) == IF cur(p1) = "Comma" THEN advance(p1) ELSE p1
             with_result(pattern, res) ==
                 IF ~res.ok THEN Fail(res.parser)
                 ELSE IF cur(res.parser) # "RightBracket" THEN Fail(res.parser)
                 ELSE parse_match_arms(skip_comma(advance(res.parser)),
                                       Append(arms, <<pattern.value, res.value>>))
             with_pattern(pattern) ==
                 IF ~pattern.ok THEN Fail(pattern.parser)
                 ELSE IF cur(pattern.parser) # "Comma" THEN Fail(pattern.parser)
                 ELSE with_result(pattern, parse_expression(advance(pattern.parser)))
         IN with_pattern(parse_pattern(advance(p)))

parse_match_expression(p) ==
    IF cur(p) # "LeftBracket" THEN Fail(p)
    ELSE LET with_arms(value, r) ==
                 IF ~r.ok THEN Fail(r.parser)
                 ELSE IF cur(r.parser) # "RightBracket" THEN Fail(r.parser)
                 ELSE Ret(advance(r.parser), Match(value.value, r.value))
             with_value(value) ==
                 IF ~value.ok THEN Fail(value.parser)
                 ELSE IF cur(value.parser) # "Comma" THEN Fail(value.parser)
                 ELSE with_arms(value, parse_match_arms(advance(value.parser), <<>>))
         IN with_value(parse_expression(advance(p)))

\* parse_lambda_expression, the `while let` loop over the parameters
RECURSIVE parse_lambda_parameters(_, _)
parse_lambda_parameters(p, parameters) ==
    IF cur(p) = "NoToken" \/ cur(p) = "RightBrace" THEN Ret(p, parameters)
    ELSE IF cur(p) # "Identifier" THEN Fail(p)
    ELSE LET skip_comma(q) == IF cur(q) = "Comma" THEN advance(q) ELSE q
             with_parameter(q, annotation) ==
                 parse_lambda_parameters(skip_comma(q), Append(parameters, annotation))
             with_type(param_name, ty) ==
                 IF ty.ok
                 THEN with_parameter(ty.parser, TypeAnnotation(param_name, ty.value))
                 ELSE Fail(ty.parser)
             named(param_name, p1) ==
                 IF cur(p1) = "Colon" THEN with_type(param_name, parse_type(advance(p1)))
                 ELSE with_parameter(p1, TypeAnnotation(param_name, Ty("Int32")))
         IN named(p.current_token.text, advance(p))

parse_lambda_expression(p) ==
    IF cur(p) # "LeftBracket" THEN Fail(p)
    ELSE LET with_body(ps, body) ==
                 IF ~body.ok THEN Fail(body.parser)
                 ELSE IF cur(body.parser) # "RightBracket" THEN Fail(body.parser)
                 ELSE Ret(advance(body.parser), Lambda(ps.value, body.value))
             after_brace(ps, p2) ==
                 IF cur(p2) # "Comma" THEN Fail(p2)
                 ELSE with_body(ps, parse_expression(advance(p2)))
             with_parameters(ps) ==
                 IF ~ps.ok THEN Fail(ps.parser)
                 ELSE IF cur(ps.parser) # "RightBrace" THEN Fail(ps.parser)
                 ELSE after_brace(ps, advance(ps.parser))
             after_bracket(p1) ==
                 IF cur(p1) # "LeftBrace" THEN Fail(p1)
                 ELSE with_parameters(parse_lambda_parameters(advance(p1), <<>>))
         IN after_bracket(advance(p))

\* parse_pattern, the `while !matches!(.., closer)` loop of the constructor,
\* tuple and list patterns; the result is the loop's exit
parse_pattern_sequence(p, patterns, closer) ==
    IF cur(p) = closer THEN Ret(p, patterns)
    ELSE LET with_pattern(r) ==
                 IF ~r.ok THEN Fail(r.parser)
                 ELSE IF cur(r.parser) = "Comma"
                      THEN parse_pattern_sequence(advance(r.parser),
                                                  Append(patterns, r.value), closer)
                      ELSE Ret(r.parser, Append(patterns, r.value))
         IN with_pattern(parse_pattern(p))

\* parse_pattern, the sequence and its closing token
parse_closed_patterns(p, closer) ==
    LET with_patterns(r) ==
            IF ~r.ok THEN Fail(r.parser)
            ELSE IF cur(r.parser) = closer THEN Ret(advance(r.parser), r.value)
            ELSE Fail(r.parser)
    IN with_patterns(parse_pattern_sequence(p, <<>>, closer))

\* parse_pattern, Some[p], Ok[p], Err[p] (p is the parser after the keyword)
parse_unary_constructor(p, name) ==
    IF cur(p) # "LeftBracket" THEN Fail(p)
    ELSE LET with_pattern(r) ==
                 IF ~r.ok THEN Fail(r.parser)
                 ELSE IF cur(r.parser) = "RightBracket"
                      THEN Ret(advance(r.parser), PatConstructor(name, <<r.value>>))
                      ELSE Fail(r.parser)
         IN with_pattern(parse_pattern(advance(p)))

parse_pattern(p) ==
    LET t == p.current_token
        constructor_name(type) ==
            CASE type = "Some" -> <<"S","o","m","e">>
              [] type = "Ok" -> <<"O","k">>
              [] type = "Err" -> <<"E","r","r">>
        constructor(r) ==
            IF r.ok THEN Ret(r.parser, PatConstructor(t.text, r.value)) ELSE Fail(r.parser)
        named(p1) ==
            IF cur(p1) = "LeftBracket"
            THEN constructor(parse_closed_patterns(advance(p1), "RightBracket"))
            ELSE Ret(p1, PatVariable(t.text))
        tuple(r) == IF r.ok THEN Ret(r.parser, PatTuple(r.value)) ELSE Fail(r.parser)
        list(r) == IF r.ok THEN Ret(r.parser, PatList(r.value)) ELSE Fail(r.parser)
        \* every arm but the last calls self.advance() first
        advanced(p1) ==
            CASE t.type = "Underscore" -> Ret(p1, PatWildcard)
              [] t.type = "Number" -> Ret(p1, PatLiteral(Number(t.num)))
              [] t.type = "String" -> Ret(p1, PatLiteral(StringLit(t.text)))
              [] t.type = "Boolean" -> Ret(p1, PatLiteral(Boolean(t.bool)))
              [] t.type = "None" -> Ret(p1, PatConstructor(<<"N","o","n","e">>, <<>>))
              [] t.type \in {"Some", "Ok", "Err"} ->
                    parse_unary_constructor(p1, constructor_name(t.type))
              [] t.type = "Identifier" -> named(p1)
              [] t.type = "LeftParen" -> tuple(parse_closed_patterns(p1, "RightParen"))
              [] t.type = "LeftBracket" -> list(parse_closed_patterns(p1, "RightBracket"))
    IN
    IF t.type \in {"Underscore", "Number", "String", "Boolean", "None", "Some", "Ok",
                   "Err", "Identifier", "LeftParen", "LeftBracket"}
    THEN advanced(advance(p))
    ELSE Fail(p)

-----------------------------------------------------------------------------
(* Code generator (rust_codegen.rs).  Generated text is a TLA+ string.  A   *)
(* generator is [indent_level, struct_definitions]; the field in_function   *)
(* of the source is written and never read.  A generating function returns  *)
(* [ok, text]: Ok(text), or Err(std::fmt::Error) (not ok, no text).         *)

GenOk(text) == [ok |-> TRUE, text |-> text]

GenErr == [ok |-> FALSE]

RustCodeGenerator_new == [indent_level |-> 0, struct_definitions |-> <<>>]

\* "    ".repeat(indent_level)
RECURSIVE repeat_indent(_)
repeat_indent(n) == IF n = 0 THEN "" ELSE "    " \o repeat_indent(n - 1)

indent(gen) == repeat_indent(gen.indent_level)

indented(gen) == [gen EXCEPT !.indent_level = @ + 1]

digit_char(d) ==
    CASE d = 0 -> "0" [] d = 1 -> "1" [] d = 2 -> "2" [] d = 3 -> "3" [] d = 4 -> "4"
      [] d = 5 -> "5" [] d = 6 -> "6" [] d = 7 -> "7" [] d = 8 -> "8" [] d = 9 -> "9"

RECURSIVE nat_to_string(_)
nat_to_string(n) ==
    IF n < 10 THEN digit_char(n) ELSE nat_to_string(n \div 10) \o digit_char(n % 10)

\* i32::to_string
i32_to_string(n) == IF n < 0 THEN "-" \o nat_to_string(0 - n) ELSE nat_to_string(n)

\* to_snake_case, the loop from character i on
RECURSIVE snake_from(_, _, _)
snake_from(s, i, prev_is_upper) ==
    IF i > Len(s) THEN ""
    ELSE IF is_uppercase(s[i])
         THEN (IF i > 1 /\ ~prev_is_upper THEN "_" ELSE "")
              \o to_ascii_lowercase(s[i]) \o snake_from(s, i + 1, TRUE)
         ELSE s[i] \o snake_from(s, i + 1, FALSE)

to_snake_case(s) == snake_from(s, 1, FALSE)

\* Vec<String>::join
RECURSIVE join(_, _)
join(texts, sep) ==
    IF texts = <<>> THEN ""
    ELSE IF Len(texts) = 1 THEN texts[1]
    ELSE texts[1] \o sep \o join(Tail(texts), sep)

RustPrimitive(t) ==
    CASE t = "Int8" -> "i8" [] t = "Int16" -> "i16" [] t = "Int32" -> "i32"
      [] t = "Int64" -> "i64" [] t = "Int128" -> "i128" [] t = "Int" -> "isize"
      [] t = "UInt8" -> "u8" [] t = "UInt16" -> "u16" [] t = "UInt32" -> "u32"
      [] t = "UInt64" -> "u64" [] t = "UInt128" -> "u128" [] t = "UInt" -> "usize"
      [] t = "Float32" -> "f32" [] t = "Float64" -> "f64"
      [] t = "Bool" -> "bool" [] t = "Char" -> "char" [] t = "String" -> "String"
      [] t = "LogLevel" -> "LogLevel"

RECURSIVE type_to_rust(_)
type_to_rust(ty) ==
    CASE ty.t = "Tuple" ->
            IF ty.types = <<>> THEN "()"
            ELSE "(" \o join([i \in 1..Len(ty.types) |-> type_to_rust(ty.types[i])], ", ") \o ")"
      [] ty.t = "List" -> "Vec<" \o type_to_rust(ty.inner) \o ">"
      [] ty.t = "Array" ->
            "[" \o type_to_rust(ty.inner) \o "; " \o nat_to_string(ty.size) \o "]"
      [] ty.t = "Slice" -> "&[" \o type_to_rust(ty.inner) \o "]"
      [] ty.t = "Map" ->
            "std::collections::HashMap<" \o type_to_rust(ty.key) \o ", "
            \o type_to_rust(ty.value) \o ">"
      [] ty.t = "HashSet" -> "std::collections::HashSet<" \o type_to_rust(ty.inner) \o ">"
      [] ty.t = "BTreeMap" ->
            "std::collections::BTreeMap<" \o type_to_rust(ty.key) \o ", "
            \o type_to_rust(ty.value) \o ">"
      [] ty.t = "BTreeSet" -> "std::collections::BTreeSet<" \o type_to_rust(ty.inner) \o ">"
      [] ty.t = "Function" ->
            "fn(" \o join([i \in 1..Len(ty.params) |-> type_to_rust(ty.params[i])], ", ")
            \o ") -> " \o type_to_rust(ty.ret)
      [] ty.t = "Option" -> "Option<" \o type_to_rust(ty.inner) \o ">"
      [] ty.t = "Result" ->
            "Result<" \o type_to_rust(ty.ok_type) \o ", " \o type_to_rust(ty.err_type) \o ">"
      [] ty.t = "Custom" -> Str(ty.name)
      [] OTHER -> RustPrimitive(ty.t)

RustNumericNames ==
    {"i8", "i16", "i32", "i64", "i128", "isize",
     "u8", "u16", "u32", "u64", "u128", "usize", "f32", "f64"}

\* infer_return_type, the lookup of an identifier among the parameters
RECURSIVE parameter_rust_type(_, _)
parameter_rust_type(name, parameters) ==
    IF parameters = <<>> THEN "()"
    ELSE IF Head(parameters).name = name THEN type_to_rust(Head(parameters).type_)
    ELSE parameter_rust_type(name, Tail(parameters))

RECURSIVE infer_return_type(_, _)
infer_return_type(expr, parameters) ==
    CASE expr.kind = "Number" -> "i32"
      [] expr.kind = "Float" -> "f64"
      [] expr.kind = "String" -> "String"
      [] expr.kind = "Boolean" -> "bool"
      [] expr.kind = "Tuple" ->
            IF expr.elements = <<>> THEN "()"
            ELSE "(" \o join([i \in 1..Len(expr.elements) |->
                                infer_return_type(expr.elements[i], parameters)], ", ") \o ")"
      [] expr.kind = "List" -> "Vec<i32>"
      [] expr.kind = "Map" -> "HashMap<String, String>"
      [] expr.kind = "Identifier" -> parameter_rust_type(expr.name, parameters)
      [] expr.kind = "BinaryOp" ->
            LET left_type == infer_return_type(expr.left, parameters) IN
            IF expr.operator \in {"Add", "Subtract", "Multiply", "Divide"}
            THEN IF left_type \in RustNumericNames THEN left_type ELSE "i32"
            ELSE "i32"
      [] expr.kind = "None" -> "Option<()>"
      [] expr.kind = "Some" -> "Option<" \o infer_return_type(expr.value, parameters) \o ">"
      [] expr.kind = "Ok" -> "Result<" \o infer_return_type(expr.value, parameters) \o ", ()>"
      [] expr.kind = "Err" -> "Result<(), " \o infer_return_type(expr.error, parameters) \o ">"
      [] OTHER -> "()"

NamePrintFn == <<"P","r","i","n","t">>

NameTuple == <<"T","u","p","l","e">>

NameMap == <<"M","a","p">>

NameFilter == <<"F","i","l","t","e","r">>

NameFold == <<"F","o","l","d">>

\* struct_definitions.contains_key(name)
is_struct(structs, name) == name \in DOMAIN structs

\* the format placeholder println! gets for one argument
format_part(gen, arg) ==
    IF arg.kind \in {"List", "Map", "Tuple"} THEN "{:?}"
    ELSE IF arg.kind = "FunctionCall" /\ arg.function.kind = "Identifier"
         THEN IF \/ arg.function.name = NameMap
                 \/ arg.function.name = NameFilter
                 \/ is_struct(gen.struct_definitions, arg.function.name)
              THEN "{:?}" ELSE "{}"
    ELSE "{}"

\* generate_expression_value (BinaryOp): the text of one binary operation
render_binary(operator, left_val, right_val) ==
    CASE operator = "Add" -> "(" \o left_val \o " + " \o right_val \o ")"
      [] operator = "Subtract" -> "(" \o left_val \o " - " \o right_val \o ")"
      [] operator = "Multiply" -> "(" \o left_val \o " * " \o right_val \o ")"
      [] operator = "Divide" -> "(" \o left_val \o " / " \o right_val \o ")"
      [] operator = "Power" ->
            "((" \o left_val \o " as i32).pow(" \o right_val \o " as u32))"
      [] operator = "Equals" -> "(" \o left_val \o " == " \o right_val \o ")"
      [] operator = "NotEquals" -> "(" \o left_val \o " != " \o right_val \o ")"
      [] operator = "LessThan" -> "(" \o left_val \o " < " \o right_val \o ")"
      [] operator = "GreaterThan" -> "(" \o left_val \o " > " \o right_val \o ")"

RECURSIVE generate_pattern(_)
RECURSIVE generate_patterns(_)

\* the sub-patterns in order: [ok, texts]
generate_patterns(patterns) ==
    IF patterns = <<>> THEN [ok |-> TRUE, texts |-> <<>>]
    ELSE LET then_rest(h, t) ==
                 IF t.ok THEN [ok |-> TRUE, texts |-> <<h.text>> \o t.texts]
                 ELSE [ok |-> FALSE]
             after_first(h) ==
                 IF ~h.ok THEN [ok |-> FALSE]
                 ELSE then_rest(h, generate_patterns(Tail(patterns)))
         IN after_first(generate_pattern(Head(patterns)))

generate_pattern(pattern) ==
    CASE pattern.pat = "Wildcard" -> GenOk("_")
      [] pattern.pat = "Literal" ->
            IF pattern.expr.kind = "Number" THEN GenOk(i32_to_string(pattern.expr.num))
            ELSE IF pattern.expr.kind = "String"
                 THEN GenOk("s if s == \"" \o Str(pattern.expr.text) \o "\"")
            ELSE IF pattern.expr.kind = "Boolean"
                 THEN GenOk(IF pattern.expr.bool THEN "true" ELSE "false")
            ELSE GenErr
      [] pattern.pat = "Variable" -> GenOk(to_snake_case(pattern.name))
      [] pattern.pat = "Constructor" ->
            IF pattern.name \in {<<"S","o","m","e">>, <<"O","k">>, <<"E","r","r">>} THEN
                IF Len(pattern.patterns) = 1 THEN
                    LET inner == generate_pattern(pattern.patterns[1])
                    IN IF inner.ok
                       THEN GenOk(Str(pattern.name) \o "(" \o inner.text \o ")")
                       ELSE GenErr
                ELSE GenErr
            ELSE IF pattern.name = <<"N","o","n","e">> THEN GenOk("None")
            ELSE LET ps == generate_patterns(pattern.patterns)
                 IN IF ps.ok
                    THEN GenOk(Str(pattern.name) \o "(" \o join(ps.texts, ", ") \o ")")
                    ELSE GenErr
      [] pattern.pat = "Tuple" ->
            IF pattern.patterns = <<>> THEN GenOk("()")
            ELSE LET ps == generate_patterns(pattern.patterns)
                 IN IF ps.ok
                    THEN GenOk("(" \o join(ps.texts, ", ")
                               \o (IF Len(pattern.patterns) = 1 THEN "," ELSE "") \o ")")
                    ELSE GenErr
      [] pattern.pat = "List" ->
            LET ps == generate_patterns(pattern.patterns)
            IN IF ps.ok THEN GenOk("[" \o join(ps.texts, ", ") \o "]") ELSE GenErr

RECURSIVE generate_expression_value(_, _)
RECURSIVE generate_values(_, _)
RECURSIVE generate_cond_branches(_, _, _)
RECURSIVE generate_match_arms(_, _)
RECURSIVE generate_map_inserts(_, _)

\* the values of exprs in order: [ok, texts]; the first error ends it
generate_values(gen, exprs) ==
    IF exprs = <<>> THEN [ok |-> TRUE, texts |-> <<>>]
    ELSE LET then_rest(h, t) ==
                 IF t.ok THEN [ok |-> TRUE, texts |-> <<h.text>> \o t.texts]
                 ELSE [ok |-> FALSE]
             after_first(h) ==
                 IF ~h.ok THEN [ok |-> FALSE]
                 ELSE then_rest(h, generate_values(gen, Tail(exprs)))
         IN after_first(generate_expression_value(gen, Head(exprs)))

\* ", " and the value, for each argument (println!'s arguments)
RECURSIVE comma_prefixed(_)
comma_prefixed(texts) ==
    IF texts = <<>> THEN "" ELSE ", " \o Head(texts) \o comma_prefixed(Tail(texts))

\* println!(...) with its format string and arguments, without the trailing `;`
println_call(gen, arguments, values) ==
    "println!("
    \o (IF arguments = <<>> THEN ""
        ELSE "\"" \o join([i \in 1..Len(arguments) |-> format_part(gen, arguments[i])], " ")
             \o "\"" \o comma_prefixed(values))
    \o ")"

\* a struct literal: Name { f1: v1, f2: v2 }
struct_literal(name, field_names, values) ==
    Str(name) \o " { "
    \o join([i \in 1..Len(values) |-> field_names[i] \o ": " \o values[i]], ", ")
    \o " }"

\* generate_expression_value (FunctionCall on an identifier)
generate_call(gen, name, arguments) ==
    CASE name = NameTuple ->
            IF arguments = <<>> THEN GenOk("()")
            ELSE LET vs == generate_values(gen, arguments)
                 IN IF vs.ok
                    THEN GenOk("(" \o join(vs.texts, ", ")
                               \o (IF Len(arguments) = 1 THEN "," ELSE "") \o ")")
                    ELSE GenErr
      [] name = NameMap ->
            IF Len(arguments) # 2 THEN GenErr
            ELSE LET list == generate_expression_value(gen, arguments[2]) IN
                 IF ~list.ok THEN GenErr
                 ELSE IF arguments[1].kind = "Lambda" THEN
                     IF Len(arguments[1].parameters) = 1 THEN
                         LET body == generate_expression_value(gen, arguments[1].body)
                         IN IF body.ok
                            THEN GenOk(list.text \o ".into_iter().map(|"
                                       \o to_snake_case(arguments[1].parameters[1].name)
                                       \o "| " \o body.text \o ").collect::<Vec<_>>()")
                            ELSE GenErr
                     ELSE GenErr
                 ELSE LET func == generate_expression_value(gen, arguments[1])
                      IN IF func.ok
                         THEN GenOk(list.text \o ".into_iter().map(" \o func.text
                                    \o ").collect::<Vec<_>>()")
                         ELSE GenErr
      [] name = NameFilter ->
            IF Len(arguments) # 2 THEN GenErr
            ELSE LET func == generate_expression_value(gen, arguments[1])
                     list == generate_expression_value(gen, arguments[2])
                 IN
                 IF ~func.ok \/ ~list.ok THEN GenErr
                 ELSE IF arguments[1].kind = "Lambda" THEN
                     IF Len(arguments[1].parameters) = 1 THEN
                         LET body == generate_expression_value(gen, arguments[1].body)
                         IN IF body.ok
                            THEN GenOk(list.text \o ".into_iter().filter(|&"
                                       \o to_snake_case(arguments[1].parameters[1].name)
                                       \o "| " \o body.text \o ").collect::<Vec<_>>()")
                            ELSE GenErr
                     ELSE GenErr
                 ELSE GenOk(list.text \o ".into_iter().filter(" \o func.text
                            \o ").collect::<Vec<_>>()")
      [] name = NameFold ->
            IF Len(arguments) # 3 THEN GenErr
            ELSE LET init == generate_expression_value(gen, arguments[2])
                     list == generate_expression_value(gen, arguments[3])
                 IN
                 IF ~init.ok \/ ~list.ok THEN GenErr
                 ELSE IF arguments[1].kind = "Lambda" THEN
                     IF Len(arguments[1].parameters) = 2 THEN
                         LET body == generate_expression_value(gen, arguments[1].body)
                         IN IF body.ok
                            THEN GenOk(list.text \o ".into_iter().fold(" \o init.text \o ", |"
                                       \o to_snake_case(arguments[1].parameters[1].name) \o ", "
                                       \o to_snake_case(arguments[1].parameters[2].name)
                                       \o "| " \o body.text \o ")")
                            ELSE GenErr
                     ELSE GenErr
                 ELSE LET func == generate_expression_value(gen, arguments[1])
                      IN IF func.ok
                         THEN GenOk(list.text \o ".into_iter().fold(" \o init.text \o ", "
                                    \o func.text \o ")")
                         ELSE GenErr
      [] name = NamePrintFn ->
            LET vs == generate_values(indented(gen), arguments)
            IN IF vs.ok
               THEN GenOk("{\n" \o indent(indented(gen))
                          \o println_call(gen, arguments, vs.texts) \o ";\n"
                          \o indent(gen) \o "}")
               ELSE GenErr
      [] OTHER ->
            IF is_struct(gen.struct_definitions, name) THEN
                IF Len(gen.struct_definitions[name]) # Len(arguments) THEN GenErr
                ELSE LET vs == generate_values(gen, arguments)
                     IN IF vs.ok
                        THEN GenOk(struct_literal(name, gen.struct_definitions[name], vs.texts))
                        ELSE GenErr
            ELSE LET vs == generate_values(gen, arguments)
                 IN IF vs.ok
                    THEN GenOk(to_snake_case(name) \o "(" \o join(vs.texts, ", ") \o ")")
                    ELSE GenErr

\* generate_expression_value (Map): the map.insert lines
generate_map_inserts(gen, entries) ==
    IF entries = <<>> THEN GenOk("")
    ELSE LET k == generate_expression_value(gen, Head(entries)[1])
             v == generate_expression_value(gen, Head(entries)[2])
         IN IF ~k.ok \/ ~v.ok THEN GenErr
            ELSE LET rest == generate_map_inserts(gen, Tail(entries))
                 IN IF rest.ok
                    THEN GenOk(indent(gen) \o "map.insert(" \o k.text \o ", " \o v.text
                               \o ");\n" \o rest.text)
                    ELSE GenErr

\* generate_expression_value (Cond): the if / else-if chain from branch i on
generate_cond_branches(gen, conditions, i) ==
    IF i > Len(conditions) THEN GenOk("")
    ELSE LET c == generate_expression_value(gen, conditions[i][1]) IN
         IF ~c.ok THEN GenErr
         ELSE LET st == generate_expression_value(indented(gen), conditions[i][2]) IN
              IF ~st.ok THEN GenErr
              ELSE LET rest == generate_cond_branches(gen, conditions, i + 1)
                   IN IF rest.ok
                      THEN GenOk((IF i > 1 THEN " else " ELSE "")
                                 \o "if " \o c.text \o " {\n"
                                 \o indent(indented(gen)) \o st.text \o "\n"
                                 \o indent(gen) \o "}" \o rest.text)
                      ELSE GenErr

\* generate_expression_value (Match): the arms
generate_match_arms(gen, arms) ==
    IF arms = <<>> THEN GenOk("")
    ELSE LET pt == generate_pattern(Head(arms)[1]) IN
         IF ~pt.ok THEN GenErr
         ELSE LET e == generate_expression_value(gen, Head(arms)[2]) IN
              IF ~e.ok THEN GenErr
              ELSE LET rest == generate_match_arms(gen, Tail(arms))
                   IN IF rest.ok
                      THEN GenOk("    " \o pt.text \o " => " \o e.text \o ",\n" \o rest.text)
                      ELSE GenErr

\* one level of generate_expression_value on a value that has one operand:
\* prefix(value)
wrap_value(gen, prefix, expr) ==
    LET wrapped(v) == IF v.ok THEN GenOk(prefix \o "(" \o v.text \o ")") ELSE GenErr
    IN wrapped(generate_expression_value(gen, expr))

generate_expression_value(gen, expr) ==
    CASE expr.kind = "Program" -> GenErr
      [] expr.kind = "Number" -> GenOk(i32_to_string(expr.num))
      [] expr.kind = "Float" -> GenOk(Str(expr.float))
      [] expr.kind = "String" -> GenOk("\"" \o Str(expr.text) \o "\".to_string()")
      [] expr.kind = "Boolean" -> GenOk(IF expr.bool THEN "true" ELSE "false")
      [] expr.kind = "Identifier" -> GenOk(to_snake_case(expr.name))
      [] expr.kind = "Tuple" ->
            IF expr.elements = <<>> THEN GenOk("()")
            ELSE LET vs == generate_values(gen, expr.elements)
                 IN IF vs.ok
                    THEN GenOk("(" \o join(vs.texts, ", ")
                               \o (IF Len(expr.elements) = 1 THEN "," ELSE "") \o ")")
                    ELSE GenErr
      [] expr.kind = "List" ->
            LET vs == generate_values(gen, expr.elements)
            IN IF vs.ok THEN GenOk("vec![" \o join(vs.texts, ", ") \o "]") ELSE GenErr
      [] expr.kind = "Map" ->
            LET ins == generate_map_inserts(indented(gen), expr.entries)
            IN IF ins.ok
               THEN GenOk("{\n" \o indent(indented(gen))
                          \o "let mut map = std::collections::HashMap::new();\n"
                          \o ins.text
                          \o indent(indented(gen)) \o "map\n"
                          \o indent(gen) \o "}")
               ELSE GenErr
      [] expr.kind = "BinaryOp" ->
            LET left_val == generate_expression_value(gen, expr.left)
                right_val == generate_expression_value(gen, expr.right)
            IN IF left_val.ok /\ right_val.ok
               THEN GenOk(render_binary(expr.operator, left_val.text, right_val.text))
               ELSE GenErr
      [] expr.kind = "FunctionCall" ->
            IF expr.function.kind = "Identifier"
            THEN generate_call(gen, expr.function.name, expr.arguments)
            ELSE GenOk("/* unsupported function call */")
      [] expr.kind = "Cond" ->
            LET branches == generate_cond_branches(gen, expr.conditions, 1) IN
            IF ~branches.ok THEN GenErr
            ELSE IF expr.default_statements = <<>> THEN branches
            ELSE LET d == generate_expression_value(indented(gen), expr.default_statements[1])
                 IN IF d.ok
                    THEN GenOk(branches.text \o " else {\n"
                               \o indent(indented(gen)) \o d.text \o "\n"
                               \o indent(gen) \o "}")
                    ELSE GenErr
      [] expr.kind = "LogCall" ->
            wrap_value(gen,
                       CASE expr.level = "Debug" -> "debug!"
                         [] expr.level = "Info" -> "info!"
                         [] expr.level = "Warn" -> "warn!"
                         [] expr.level = "Error" -> "error!",
                       expr.message)
      [] expr.kind = "FunctionDefinition" ->
            GenOk("/* function definitions not supported as values */")
      [] expr.kind = "None" -> GenOk("None")
      [] expr.kind = "Some" -> wrap_value(gen, "Some", expr.value)
      [] expr.kind = "Ok" -> wrap_value(gen, "Ok", expr.value)
      [] expr.kind = "Err" -> wrap_value(gen, "Err", expr.error)
      [] expr.kind = "Match" ->
            LET v == generate_expression_value(gen, expr.value) IN
            IF ~v.ok THEN GenErr
            ELSE LET arms == generate_match_arms(gen, expr.arms)
                 IN IF arms.ok
                    THEN GenOk("match " \o v.text \o " {\n" \o arms.text \o "}")
                    ELSE GenErr
      [] expr.kind = "Lambda" ->
            LET body == generate_expression_value(gen, expr.body)
            IN IF body.ok
               THEN GenOk("|" \o join([i \in 1..Len(expr.parameters) |->
                                          to_snake_case(expr.parameters[i].name)], ", ")
                          \o "| " \o body.text)
               ELSE GenErr
      [] expr.kind = "StructDefinition" -> GenErr
      [] expr.kind = "StructInstantiation" ->
            IF ~is_struct(gen.struct_definitions, expr.struct_name) THEN GenErr
            ELSE IF Len(gen.struct_definitions[expr.struct_name]) # Len(expr.field_values)
                 THEN GenErr
            ELSE LET vs == generate_values(gen, expr.field_values)
                 IN IF vs.ok
                    THEN GenOk(struct_literal(expr.struct_name,
                                              gen.struct_definitions[expr.struct_name],
                                              vs.texts))
                    ELSE GenErr

\* generate_statement: the text written to the output, [ok, text]
generate_statement(gen, expr) ==
    IF expr.kind = "FunctionCall" /\ expr.function.kind = "Identifier"
       /\ expr.function.name = NamePrintFn
    THEN LET printed(vs) ==
                 IF vs.ok
                 THEN GenOk(indent(gen) \o println_call(gen, expr.arguments, vs.texts)
                            \o ";\n")
                 ELSE GenErr
         IN printed(generate_values(gen, expr.arguments))
    ELSE LET written(value) ==
                 IF value.ok THEN GenOk(indent(gen) \o value.text \o ";\n") ELSE GenErr
         IN written(generate_expression_value(gen, expr))

RECURSIVE generate_statements(_, _)
\* generate's loop over the statements of main
generate_statements(gen, statements) ==
    IF statements = <<>> THEN GenOk("")
    ELSE LET then_rest(h, t) == IF t.ok THEN GenOk(h.text \o t.text) ELSE GenErr
             after_first(h) ==
                 IF ~h.ok THEN GenErr
                 ELSE then_rest(h, generate_statements(gen, Tail(statements)))
         IN after_first(generate_statement(gen, Head(statements)))

\* generate_function_definition: [ok, text]
generate_function_definition(gen, name, parameters, body) ==
    LET written(return_type, body_code) ==
            IF body_code.ok
            THEN GenOk(indent(gen) \o "fn " \o to_snake_case(name) \o "("
                       \o join([i \in 1..Len(parameters) |->
                                   to_snake_case(parameters[i].name) \o ": "
                                   \o type_to_rust(parameters[i].type_)], ", ")
                       \o ")"
                       \o (IF return_type # "()" THEN " -> " \o return_type ELSE "")
                       \o " {\n"
                       \o indent(indented(gen)) \o body_code.text \o "\n"
                       \o indent(gen) \o "}\n")
            ELSE GenErr
    IN written(infer_return_type(body, parameters),
               generate_expression_value(indented(gen), body))

\* a struct definition that leaves the table as it was (what C14 rules out)
without_struct(gen, name, fields) == gen

\* generate_struct_definition, the table update: name -> snake-cased field names
with_struct(gen, name, fields) ==
    [gen EXCEPT !.struct_definitions =
        [n \in DOMAIN gen.struct_definitions \cup {name} |->
            IF n = name THEN [i \in 1..Len(fields) |-> to_snake_case(fields[i].name)]
            ELSE gen.struct_definitions[n]]]

RECURSIVE struct_field_lines(_, _)
struct_field_lines(gen, fields) ==
    IF fields = <<>> THEN ""
    ELSE indent(indented(gen)) \o "pub " \o to_snake_case(Head(fields).name) \o ": "
         \o type_to_rust(Head(fields).type_) \o ",\n" \o struct_field_lines(gen, Tail(fields))

\* generate_struct_definition, the text written
generate_struct_definition(gen, name, fields) ==
    indent(gen) \o "#[derive(Debug, Clone, PartialEq)]\n"
    \o indent(gen) \o "pub struct " \o Str(name) \o " {\n"
    \o struct_field_lines(gen, fields)
    \o indent(gen) \o "}\n"

\* generate_top_level_item: [ok, text, gen]
generate_top_level_item(gen, expr) ==
    LET written(r) ==
            IF r.ok THEN [ok |-> TRUE, text |-> r.text, gen |-> gen]
            ELSE [ok |-> FALSE, gen |-> gen]
    IN
    CASE expr.kind = "FunctionDefinition" ->
            written(generate_function_definition(gen, expr.name, expr.parameters,
                                                 expr.body))
      [] expr.kind = "StructDefinition" ->
            [ok |-> TRUE, text |-> generate_struct_definition(gen, expr.name, expr.fields),
             gen |-> with_struct(gen, expr.name, expr.fields)]
      [] OTHER -> written(generate_statement(gen, expr))

RECURSIVE generate_top_level_items(_, _)
\* generate's loop over the top-level items, a blank line after each
generate_top_level_items(gen, items) ==
    IF items = <<>> THEN [ok |-> TRUE, text |-> "", gen |-> gen]
    ELSE LET then_rest(h, t) ==
                 IF t.ok THEN [ok |-> TRUE, text |-> h.text \o "\n" \o t.text, gen |-> t.gen]
                 ELSE [ok |-> FALSE, gen |-> t.gen]
             after_first(h) ==
                 IF ~h.ok THEN [ok |-> FALSE, gen |-> h.gen]
                 ELSE then_rest(h, generate_top_level_items(h.gen, Tail(items)))
         IN after_first(generate_top_level_item(gen, Head(items)))

is_top_level_item(e) == e.kind \in {"FunctionDefinition", "StructDefinition"}

StubMain == "fn main() {\n    // Stub main function for compilation\n}\n"

\* generate: [ok, text, gen]; gen is the generator afterwards (indent_level is
\* reset at the next call, the struct table is kept)
generate(gen0, expr) ==
    LET with_main(items, body) ==
            IF body.ok
            THEN [ok |-> TRUE,
                  text |-> items.text \o "fn main() {\n" \o body.text \o "}\n",
                  gen |-> items.gen]
            ELSE [ok |-> FALSE, gen |-> items.gen]
        program(statements, items) ==
            IF ~items.ok THEN [ok |-> FALSE, gen |-> items.gen]
            ELSE IF statements = <<>>
                 THEN [ok |-> TRUE, text |-> items.text \o StubMain, gen |-> items.gen]
            ELSE with_main(items, generate_statements(indented(items.gen), statements))
        single_item(item) ==
            IF item.ok
            THEN [ok |-> TRUE, text |-> item.text \o "\n" \o StubMain, gen |-> item.gen]
            ELSE [ok |-> FALSE, gen |-> item.gen]
        single_statement(gen, body) ==
            IF body.ok
            THEN [ok |-> TRUE, text |-> "fn main() {\n" \o body.text \o "}\n", gen |-> gen]
            ELSE [ok |-> FALSE, gen |-> gen]
        reset(gen) ==
            CASE expr.kind = "Program" ->
                    program(SelectSeq(expr.expressions, LAMBDA e : ~is_top_level_item(e)),
                            generate_top_level_items(
                                gen, SelectSeq(expr.expressions, is_top_level_item)))
              [] is_top_level_item(expr) -> single_item(generate_top_level_item(gen, expr))
              [] OTHER -> single_statement(gen, generate_statement(indented(gen), expr))
    IN reset([gen0 EXCEPT !.indent_level = 0])

-----------------------------------------------------------------------------
(* Type inference (type_inference.rs).                                     *)

\* enum TypeError
TypeMismatch(expected, actual, context) ==
    [error |-> "TypeMismatch", expected |-> expected, actual |-> actual, context |-> context]

UndefinedIdentifier(name) == [error |-> "UndefinedIdentifier", name |-> name]

ArityMismatch(function, expected, actual) ==
    [error |-> "ArityMismatch", function |-> function, expected |-> expected,
     actual |-> actual]

CannotInfer(context) == [error |-> "CannotInfer", context |-> context]

FieldCountMismatch(struct_name, expected, actual) ==
    [error |-> "FieldCountMismatch", struct_name |-> struct_name, expected |-> expected,
     actual |-> actual]

\* struct TypeEnvironment: two maps keyed by name
TypeEnvironment_new == [bindings |-> <<>>, structs |-> <<>>]

bind(env, name, ty) ==
    [env EXCEPT !.bindings = [n \in DOMAIN env.bindings \cup {name} |->
                                 IF n = name THEN ty ELSE env.bindings[n]]]

is_bound(env, name) == name \in DOMAIN env.bindings

lookup(env, name) == env.bindings[name]

\* a struct definition that registers nothing (what C11 rules out)
define_no_struct(env, name, fields) == env

define_struct(env, name, fields) ==
    [env EXCEPT !.structs = [n \in DOMAIN env.structs \cup {name} |->
                                IF n = name THEN fields ELSE env.structs[n]]]

is_defined_struct(env, name) == name \in DOMAIN env.structs

lookup_struct(env, name) == env.structs[name]

\* a copy: the child shares nothing with the environment it was made from
child(env) == [bindings |-> env.bindings, structs |-> env.structs]

\* a nested scope whose bindings stay in self.env (what C26 rules out)
keep_child(env, child_env) == child_env

\* the end of a nested scope: the child TypeInference, which owns child_env,
\* is dropped, and self.env is what it was
drop_child(env, child_env) == env

\* a child environment in which no parameter is bound (what C8 rules out)
no_parameters(env, parameters) == env

RECURSIVE bind_parameters(_, _)
bind_parameters(env, parameters) ==
    IF parameters = <<>> THEN env
    ELSE bind_parameters(bind(env, Head(parameters).name, Head(parameters).type_),
                         Tail(parameters))

\* an arithmetic that accepts operands of every type (what C6 rules out)
is_any_type(ty) == TRUE

is_numeric(ty) ==
    ty.t \in {"Int8", "Int16", "Int32", "Int64", "Int128", "Int",
              "UInt8", "UInt16", "UInt32", "UInt64", "UInt128", "UInt",
              "Float32", "Float64"}

ArithmeticOperators == {"Add", "Subtract", "Multiply", "Divide", "Power"}

\* results of infer_expression: the type or the error, and self.env afterwards
InferOk(ty, env) == [ok |-> TRUE, type |-> ty, env |-> env]

InferErr(error, env) == [ok |-> FALSE, error |-> error, env |-> env]

\* results of check_pattern: the pattern environment afterwards, or the error
PatternOk(env) == [ok |-> TRUE, env |-> env]

PatternErr(error) == [ok |-> FALSE, error |-> error]

RECURSIVE infer_expression(_, _)
RECURSIVE infer_all(_, _)
RECURSIVE infer_list_rest(_, _, _)
RECURSIVE check_arguments(_, _, _, _)
RECURSIVE check_pattern(_, _, _, _)
RECURSIVE check_patterns(_, _, _, _)
RECURSIVE infer_arms(_, _, _, _)
RECURSIVE infer_conditions(_, _, _)

\* a list typed by its first element alone (what C5 rules out)
list_of_first(env, elements, first_type) == InferOk(TyList(first_type), env)

\* a call whose argument types are not compared (what C10 rules out)
unchecked_arguments(env, arguments, expected_types, ctx) == [ok |-> TRUE, env |-> env]

\* `for elem in elements { types.push(self.infer_expression(elem)?) }`
infer_all(env, exprs) ==
    IF exprs = <<>> THEN [ok |-> TRUE, types |-> <<>>, env |-> env]
    ELSE LET h == infer_expression(env, Head(exprs)) IN
         IF ~h.ok THEN h
         ELSE LET t == infer_all(h.env, Tail(exprs))
              IN IF t.ok THEN [ok |-> TRUE, types |-> <<h.type>> \o t.types, env |-> t.env]
                 ELSE t

\* the loop over elements[1..] of a list literal
infer_list_rest(env, elements, first_type) ==
    IF elements = <<>> THEN InferOk(TyList(first_type), env)
    ELSE LET elem == infer_expression(env, Head(elements)) IN
         IF ~elem.ok THEN elem
         ELSE IF elem.type # first_type
              THEN InferErr(TypeMismatch(first_type, elem.type, "list elements"), elem.env)
         ELSE infer_list_rest(elem.env, Tail(elements), first_type)

\* the loop over arguments zipped with the expected types; ctx[i] is the
\* context reported for a mismatch at position i
check_arguments(env, arguments, expected_types, ctx) ==
    IF arguments = <<>> \/ expected_types = <<>> THEN [ok |-> TRUE, env |-> env]
    ELSE LET arg == infer_expression(env, Head(arguments)) IN
         IF ~arg.ok THEN arg
         ELSE IF arg.type # Head(expected_types)
              THEN InferErr(TypeMismatch(Head(expected_types), arg.type, Head(ctx)), arg.env)
         ELSE check_arguments(arg.env, Tail(arguments), Tail(expected_types), Tail(ctx))

\* infer_expression (FunctionCall on an identifier)
infer_call(env, name, arguments) ==
    CASE name = NamePrintFn -> InferOk(TyTuple(<<>>), env)
      [] name = NameTuple ->
            LET r == infer_all(env, arguments)
            IN IF r.ok THEN InferOk(TyTuple(r.types), r.env) ELSE r
      [] name = NameMap \/ name = NameFilter ->
            IF Len(arguments) # 2
            THEN InferErr(ArityMismatch(name, 2, Len(arguments)), env)
            ELSE InferOk(TyList(Ty("Int32")), env)
      [] name = NameFold ->
            IF Len(arguments) # 3
            THEN InferErr(ArityMismatch(name, 3, Len(arguments)), env)
            ELSE infer_expression(env, arguments[2])
      [] OTHER ->
            IF is_defined_struct(env, name) THEN
                LET fields == lookup_struct(env, name) IN
                IF Len(fields) # Len(arguments)
                THEN InferErr(FieldCountMismatch(name, Len(fields), Len(arguments)), env)
                ELSE LET r == check_arguments(env, arguments,
                                  [i \in 1..Len(fields) |-> fields[i].type_],
                                  [i \in 1..Len(fields) |-> "field " \o Str(fields[i].name)])
                     IN IF r.ok THEN InferOk(TyCustom(name), r.env) ELSE r
            ELSE IF is_bound(env, name) THEN
                LET func_type == lookup(env, name) IN
                IF func_type.t = "Function" THEN
                    IF Len(func_type.params) # Len(arguments)
                    THEN InferErr(ArityMismatch(name, Len(func_type.params), Len(arguments)),
                                  env)
                    ELSE LET r == check_arguments(env, arguments, func_type.params,
                                      [i \in 1..Len(arguments) |->
                                          "argument to " \o Str(name)])
                         IN IF r.ok THEN InferOk(func_type.ret, r.env) ELSE r
                ELSE InferErr(TypeMismatch(TyFunction(<<>>, Ty("Int32")), func_type,
                                           Str(name) \o " is not a function"), env)
            ELSE InferErr(UndefinedIdentifier(name), env)

\* check_pattern(&self, pattern, expected_type, env): self_env is self.env
check_pattern(self_env, pattern, expected_type, env) ==
    CASE pattern.pat = "Wildcard" -> PatternOk(env)
      [] pattern.pat = "Literal" ->
            LET literal == infer_expression(self_env, pattern.expr) IN
            IF ~literal.ok THEN PatternErr(literal.error)
            ELSE IF literal.type # expected_type
                 THEN PatternErr(TypeMismatch(expected_type, literal.type, "pattern literal"))
            ELSE PatternOk(env)
      [] pattern.pat = "Variable" -> PatternOk(bind(env, pattern.name, expected_type))
      [] pattern.pat = "Constructor" ->
            CASE pattern.name = <<"S","o","m","e">> ->
                    IF expected_type.t = "Option" THEN
                        IF Len(pattern.patterns) # 1
                        THEN PatternErr(CannotInfer(
                                 "Some pattern must have exactly one argument"))
                        ELSE check_pattern(self_env, pattern.patterns[1],
                                           expected_type.inner, env)
                    ELSE PatternErr(TypeMismatch(TyOption(Ty("Int32")), expected_type,
                                                 "Some pattern"))
              [] pattern.name = <<"N","o","n","e">> ->
                    IF expected_type.t = "Option" THEN
                        IF pattern.patterns # <<>>
                        THEN PatternErr(CannotInfer("None pattern should have no arguments"))
                        ELSE PatternOk(env)
                    ELSE PatternErr(TypeMismatch(TyOption(Ty("Int32")), expected_type,
                                                 "None pattern"))
              [] pattern.name = <<"O","k">> ->
                    IF expected_type.t = "Result" THEN
                        IF Len(pattern.patterns) # 1
                        THEN PatternErr(CannotInfer("Ok pattern must have exactly one argument"))
                        ELSE check_pattern(self_env, pattern.patterns[1],
                                           expected_type.ok_type, env)
                    ELSE PatternErr(TypeMismatch(TyResult(Ty("Int32"), Ty("String")),
                                                 expected_type, "Ok pattern"))
              [] pattern.name = <<"E","r","r">> ->
                    IF expected_type.t = "Result" THEN
                        IF Len(pattern.patterns) # 1
                        THEN PatternErr(CannotInfer(
                                 "Err pattern must have exactly one argument"))
                        ELSE check_pattern(self_env, pattern.patterns[1],
                                           expected_type.err_type, env)
                    ELSE PatternErr(TypeMismatch(TyResult(Ty("Int32"), Ty("String")),
                                                 expected_type, "Err pattern"))
              [] OTHER ->
                    PatternErr(CannotInfer("Unknown constructor: " \o Str(pattern.name)))
      [] pattern.pat = "Tuple" ->
            IF expected_type.t = "Tuple" THEN
                IF Len(pattern.patterns) # Len(expected_type.types)
                THEN PatternErr(TypeMismatch(expected_type, TyTuple(<<>>),
                         "tuple pattern length mismatch: expected "
                         \o nat_to_string(Len(expected_type.types)) \o ", got "
                         \o nat_to_string(Len(pattern.patterns))))
                ELSE check_patterns(self_env, pattern.patterns, expected_type.types, env)
            ELSE PatternErr(TypeMismatch(TyTuple(<<>>), expected_type, "tuple pattern"))
      [] pattern.pat = "List" ->
            IF expected_type.t = "List"
            THEN check_patterns(self_env, pattern.patterns,
                                [i \in 1..Len(pattern.patterns) |-> expected_type.inner], env)
            ELSE PatternErr(TypeMismatch(TyList(Ty("Int32")), expected_type, "list pattern"))

\* `for (pattern, ty) in patterns.iter().zip(types.iter())`
check_patterns(self_env, patterns, types, env) ==
    IF patterns = <<>> THEN PatternOk(env)
    ELSE LET h == check_pattern(self_env, Head(patterns), Head(types), env)
         IN IF h.ok THEN check_patterns(self_env, Tail(patterns), Tail(types), h.env)
            ELSE h

\* a Match typed by its first arm alone (what C12 rules out)
infer_first_arm(env, arms, value_type, result_type) ==
    LET checked == check_pattern(env, Head(arms)[1], value_type, child(env)) IN
    IF ~checked.ok THEN InferErr(checked.error, env)
    ELSE LET arm == infer_expression(checked.env, Head(arms)[2]) IN
         IF arm.ok THEN InferOk(arm.type, env) ELSE InferErr(arm.error, env)

\* the loop over the arms of a Match; result_type is Option<Type>
infer_arms(env, arms, value_type, result_type) ==
    IF arms = <<>> THEN InferOk(result_type[1], env)
    ELSE LET checked == check_pattern(env, Head(arms)[1], value_type, child(env)) IN
         IF ~checked.ok THEN InferErr(checked.error, env)
         ELSE LET arm == infer_expression(checked.env, Head(arms)[2])
                  self_env == drop_child(env, arm.env)
              IN
              IF ~arm.ok THEN InferErr(arm.error, self_env)
              ELSE IF result_type = <<>>
                   THEN infer_arms(self_env, Tail(arms), value_type, <<arm.type>>)
              ELSE IF result_type[1] # arm.type
                   THEN InferErr(TypeMismatch(result_type[1], arm.type, "match arm result"),
                                 self_env)
              ELSE infer_arms(self_env, Tail(arms), value_type, result_type)

\* the loop over the (condition, statements) pairs of a Cond:
\* [ok, result_type, env] or an error
infer_conditions(env, conditions, result_type) ==
    IF conditions = <<>> THEN [ok |-> TRUE, result_type |-> result_type, env |-> env]
    ELSE LET cond == infer_expression(env, Head(conditions)[1]) IN
         IF ~cond.ok THEN cond
         ELSE IF cond.type # Ty("Bool")
              THEN InferErr(TypeMismatch(Ty("Bool"), cond.type, "condition"), cond.env)
         ELSE LET stmt == infer_expression(cond.env, Head(conditions)[2]) IN
              IF ~stmt.ok THEN stmt
              ELSE IF result_type = <<>>
                   THEN infer_conditions(stmt.env, Tail(conditions), <<stmt.type>>)
              ELSE IF result_type[1] # stmt.type
                   THEN InferErr(TypeMismatch(result_type[1], stmt.type, "cond branch"),
                                 stmt.env)
              ELSE infer_conditions(stmt.env, Tail(conditions), result_type)

\* Option / Result constructors: the operand's type wrapped by make
infer_wrapped(env, expr, make(_)) ==
    LET r == infer_expression(env, expr)
    IN IF r.ok THEN InferOk(make(r.type), r.env) ELSE r

\* infer_expression(&mut self, expr): env is self.env before the call
infer_expression(env, expr) ==
    CASE expr.kind = "Number" -> InferOk(Ty("Int32"), env)
      [] expr.kind = "Float" -> InferOk(Ty("Float64"), env)
      [] expr.kind = "String" -> InferOk(Ty("String"), env)
      [] expr.kind = "Boolean" -> InferOk(Ty("Bool"), env)
      [] expr.kind = "Tuple" ->
            LET r == infer_all(env, expr.elements)
            IN IF r.ok THEN InferOk(TyTuple(r.types), r.env) ELSE r
      [] expr.kind = "List" ->
            IF expr.elements = <<>> THEN InferErr(CannotInfer("empty list"), env)
            ELSE LET first == infer_expression(env, expr.elements[1])
                 IN IF first.ok
                    THEN infer_list_rest(first.env, Tail(expr.elements), first.type)
                    ELSE first
      [] expr.kind = "Identifier" ->
            IF is_bound(env, expr.name) THEN InferOk(lookup(env, expr.name), env)
            ELSE InferErr(UndefinedIdentifier(expr.name), env)
      [] expr.kind = "BinaryOp" ->
            LET left == infer_expression(env, expr.left) IN
            IF ~left.ok THEN left
            ELSE LET right == infer_expression(left.env, expr.right) IN
                 IF ~right.ok THEN right
                 ELSE IF expr.operator \in ArithmeticOperators THEN
                     IF ~is_numeric(left.type)
                     THEN InferErr(TypeMismatch(Ty("Int32"), left.type,
                                                "arithmetic operation"), right.env)
                     ELSE IF left.type # right.type
                     THEN InferErr(TypeMismatch(left.type, right.type,
                                                "arithmetic operation"), right.env)
                     ELSE InferOk(left.type, right.env)
                 ELSE
                     IF left.type # right.type
                     THEN InferErr(TypeMismatch(left.type, right.type,
                                                "comparison operation"), right.env)
                     ELSE InferOk(Ty("Bool"), right.env)
      [] expr.kind = "FunctionDefinition" ->
            LET child_env == bind_parameters(child(env), expr.parameters)
                body == infer_expression(child_env, expr.body)
                self_env == drop_child(env, body.env)
            IN IF ~body.ok THEN InferErr(body.error, self_env)
               ELSE LET func_type == TyFunction([i \in 1..Len(expr.parameters) |->
                                                    expr.parameters[i].type_], body.type)
                    IN InferOk(func_type, bind(self_env, expr.name, func_type))
      [] expr.kind = "FunctionCall" ->
            IF expr.function.kind = "Identifier"
            THEN infer_call(env, expr.function.name, expr.arguments)
            ELSE InferErr(CannotInfer("complex function expression"), env)
      [] expr.kind = "StructDefinition" ->
            InferOk(TyTuple(<<>>), define_struct(env, expr.name, expr.fields))
      [] expr.kind = "None" -> InferOk(TyOption(Ty("Int32")), env)
      [] expr.kind = "Some" -> infer_wrapped(env, expr.value, TyOption)
      [] expr.kind = "Ok" ->
            infer_wrapped(env, expr.value, LAMBDA ty : TyResult(ty, Ty("String")))
      [] expr.kind = "Err" ->
            infer_wrapped(env, expr.error, LAMBDA ty : TyResult(Ty("Int32"), ty))
      [] expr.kind = "Match" ->
            LET value == infer_expression(env, expr.value) IN
            IF ~value.ok THEN value
            ELSE IF expr.arms = <<>>
                 THEN InferErr(CannotInfer("match with no arms"), value.env)
            ELSE infer_arms(value.env, expr.arms, value.type, <<>>)
      [] expr.kind = "Cond" ->
            LET branches == infer_conditions(env, expr.conditions, <<>>) IN
            IF ~branches.ok THEN branches
            ELSE IF expr.default_statements = <<>>
                 THEN InferOk(IF branches.result_type = <<>> THEN TyTuple(<<>>)
                              ELSE branches.result_type[1], branches.env)
            ELSE LET default == infer_expression(branches.env, expr.default_statements[1]) IN
                 IF ~default.ok THEN default
                 ELSE IF branches.result_type = <<>> THEN default
                 ELSE IF branches.result_type[1] # default.type
                      THEN InferErr(TypeMismatch(branches.result_type[1], default.type,
                                                 "cond default branch"), default.env)
                 ELSE InferOk(branches.result_type[1], default.env)
      [] expr.kind = "Program" -> InferErr(CannotInfer("program"), env)
      [] expr.kind = "Lambda" -> InferErr(CannotInfer("lambda"), env)
      [] expr.kind = "LogCall" -> InferOk(TyTuple(<<>>), env)
      [] expr.kind = "Map" -> InferErr(CannotInfer("map literal"), env)
      [] expr.kind = "StructInstantiation" ->
            InferErr(CannotInfer("struct instantiation"), env)

RECURSIVE check_program(_, _)
\* check_program: [ok, env] or the first error
check_program(env, exprs) ==
    IF exprs = <<>> THEN [ok |-> TRUE, env |-> env]
    ELSE LET r == infer_expression(env, Head(exprs))
         IN IF r.ok THEN check_program(r.env, Tail(exprs)) ELSE r

-----------------------------------------------------------------------------
(* Source texts given to Parser::new.                                      *)

RECURSIVE Concat(_)
\* the concatenation of a sequence of texts
Concat(texts) == IF texts = <<>> THEN <<>> ELSE Head(texts) \o Concat(Tail(texts))

RECURSIVE SepConcat(_, _)
\* the texts joined by sep
SepConcat(texts, sep) ==
    IF texts = <<>> THEN <<>>
    ELSE IF Len(texts) = 1 THEN texts[1]
    ELSE Head(texts) \o sep \o SepConcat(Tail(texts), sep)

SeqsUpTo(S, n) == UNION { [1..k -> S] : k \in 0..n }

\* free-form texts: up to MaxLexemes lexemes written one after the other;
\* `=` alone and `@` are characters the lexer has no token for
LexemePool ==
    { <<"f","[">>, <<"x">>, <<"1">>, <<"]">>, <<"O","k"," ">>, <<"=">>, <<"@">>,
      <<"+">>, <<"[">> }

\* operator chains: p0 op1 p1 ... opn pn, n <= MaxOps
ChainPrimaries == { <<"2">>, <<"x">> }

OperatorText(operator) ==
    CASE operator = "Add" -> <<"+">>
      [] operator = "Subtract" -> <<"-">>
      [] operator = "Multiply" -> <<"*">>
      [] operator = "Divide" -> <<"/">>
      [] operator = "Power" -> <<"^">>
      [] operator = "Equals" -> <<"=","=">>
      [] operator = "NotEquals" -> <<"!","=">>
      [] operator = "LessThan" -> <<"<">>
      [] operator = "GreaterThan" -> <<">">>

Operators ==
    {"Add", "Subtract", "Multiply", "Divide", "Power", "Equals", "NotEquals",
     "LessThan", "GreaterThan"}

\* a chain is <<p0, <<op1, p1>>, ..., <<opn, pn>>>> given as head and links
ChainLinks == SeqsUpTo(Operators \X ChainPrimaries, MaxOps)

RECURSIVE LinksText(_)
LinksText(links) ==
    IF links = <<>> THEN <<>>
    ELSE <<" ">> \o OperatorText(Head(links)[1]) \o <<" ">> \o Head(links)[2]
         \o LinksText(Tail(links))

ChainText(p0, links) == p0 \o LinksText(links)

\* calls and definitions: f[item, ...] optionally followed by := 1
CallItems ==
    { <<"x",":","I","n","t","3","2">>, <<"y",":","B","o","o","l">>, <<"1">>, <<"z">> }

CallItemSeqs == SeqsUpTo(CallItems, MaxItems)

CallText(items, defined) ==
    <<"f","[">> \o SepConcat(items, <<",">>) \o <<"]">>
    \o (IF defined THEN <<":","=","1">> ELSE <<>>)

\* tuple literals of up to MaxTuple elements, each 1, x or a tuple of up to
\* MaxTuple of these; a one-element tuple is written (e,) or, without the
\* comma, (e)
TupleLeaves == { Number(1), Identifier(<<"x">>) }

TupleTrees ==
    { Tuple(es) :
        es \in SeqsUpTo(TupleLeaves \cup { Tuple(inner) : inner \in SeqsUpTo(TupleLeaves, MaxTuple) },
                        MaxTuple) }

RECURSIVE TupleText(_, _)
TupleText(e, comma) ==
    IF e.kind = "Number" THEN <<"1">>
    ELSE IF e.kind = "Identifier" THEN e.name
    ELSE <<"(">>
         \o SepConcat([i \in 1..Len(e.elements) |-> TupleText(e.elements[i], comma)],
                      <<",", " ">>)
         \o (IF Len(e.elements) = 1 /\ comma THEN <<",">> ELSE <<>>)
         \o <<")">>

\* struct definitions Struct[P, [f: T, ...]] of up to MaxItems fields and
\* instantiations P[v, ...] of up to MaxItems values
StructFields ==
    { TypeAnnotation(<<"x">>, Ty("Int32")), TypeAnnotation(<<"y">>, Ty("Bool")) }

StructValues == { Number(1), Boolean(TRUE) }

StructItemText(item) ==
    IF item = Number(1) THEN <<"1">>
    ELSE IF item = Boolean(TRUE) THEN <<"t","r","u","e">>
    ELSE item.name \o <<":"," ">>
         \o (IF item.type_ = Ty("Int32") THEN <<"I","n","t","3","2">>
             ELSE <<"B","o","o","l">>)

StructText(definition, items) ==
    LET listed == SepConcat([i \in 1..Len(items) |-> StructItemText(items[i])], <<","," ">>)
    IN IF definition
       THEN <<"S","t","r","u","c","t","[","P",","," ","[">> \o listed \o <<"]","]">>
       ELSE <<"P","[">> \o listed \o <<"]">>

\* Match[x, [p, r], ...] of up to MaxArms arms, each pattern _, 1, y or
\* K[y, 1] and each result 0 or y
MatchArms ==
    { PatWildcard, PatLiteral(Number(1)), PatVariable(<<"y">>),
      PatConstructor(<<"K">>, <<PatVariable(<<"y">>), PatLiteral(Number(1))>>) }
    \X {Number(0), Identifier(<<"y">>)}

RECURSIVE PatternText(_)
PatternText(pattern) ==
    IF pattern = PatWildcard THEN <<"_">>
    ELSE IF pattern.pat = "Literal" THEN <<"1">>
    ELSE IF pattern.pat = "Variable" THEN pattern.name
    ELSE pattern.name \o <<"[">>
         \o SepConcat([i \in 1..Len(pattern.patterns) |-> PatternText(pattern.patterns[i])],
                      <<","," ">>)
         \o <<"]">>

MatchText(arms) ==
    <<"M","a","t","c","h","[","x">>
    \o Concat([i \in 1..Len(arms) |->
                  <<","," ","[">> \o PatternText(arms[i][1]) \o <<","," ">>
                  \o (IF arms[i][2].kind = "Number" THEN <<"0">> ELSE arms[i][2].name)
                  \o <<"]">>])
    \o <<"]">>

\* Cond[[c r] [d] ...] of up to MaxBrackets inner brackets, each holding one
\* or two of the expressions x and 1
CondExprs == { Identifier(<<"x">>), Number(1) }

CondBrackets == SeqsUpTo(CondExprs, 2) \ {<<>>}

CondExprText(e) == IF e.kind = "Number" THEN <<"1">> ELSE e.name

CondText(brackets) ==
    <<"C","o","n","d","[">>
    \o SepConcat([i \in 1..Len(brackets) |->
                     <<"[">>
                     \o SepConcat([j \in 1..Len(brackets[i]) |-> CondExprText(brackets[i][j])],
                                  <<" ">>)
                     \o <<"]">>],
                 <<" ">>)
    \o <<"]">>

\* lists, tuples and maps, closed or not: up to MaxLexemes of the lexemes
BracketLexemes ==
    { <<"[">>, <<"(">>, <<"{">>, <<"1">>, <<",">>, <<"1",":"," ","1">>,
      <<"]">>, <<")">>, <<"}">> }

\* every way a text is written, and the text written
Sources ==
    { [family |-> "lexemes", lexemes |-> ls] : ls \in SeqsUpTo(LexemePool, MaxLexemes) }
    \cup { [family |-> "chain", p0 |-> p0, links |-> links] :
              p0 \in ChainPrimaries, links \in ChainLinks }
    \cup { [family |-> "call", items |-> items, defined |-> defined] :
              items \in CallItemSeqs, defined \in BOOLEAN }
    \cup { [family |-> "tuple", tree |-> tree, comma |-> comma] :
              tree \in TupleTrees, comma \in BOOLEAN }
    \cup { [family |-> "struct", fields |-> fields] :
              fields \in SeqsUpTo(StructFields, MaxItems) }
    \cup { [family |-> "instance", values |-> values] :
              values \in SeqsUpTo(StructValues, MaxItems) }
    \cup { [family |-> "wildcard"] }
    \cup { [family |-> "match", arms |-> arms] : arms \in SeqsUpTo(MatchArms, MaxArms) }
    \cup { [family |-> "cond", brackets |-> brackets] :
              brackets \in SeqsUpTo(CondBrackets, MaxBrackets) }
    \cup { [family |-> "brackets", delimited |-> ls] :
              ls \in SeqsUpTo(BracketLexemes, MaxLexemes) }

TextOf(src) ==
    CASE src.family = "lexemes" -> Concat(src.lexemes)
      [] src.family = "chain" -> ChainText(src.p0, src.links)
      [] src.family = "call" -> CallText(src.items, src.defined)
      [] src.family = "tuple" -> TupleText(src.tree, src.comma)
      [] src.family = "struct" -> StructText(TRUE, src.fields)
      [] src.family = "instance" -> StructText(FALSE, src.values)
      [] src.family = "wildcard" -> <<"_">>
      [] src.family = "match" -> MatchText(src.arms)
      [] src.family = "cond" -> CondText(src.brackets)
      [] src.family = "brackets" -> Concat(src.delimited)

-----------------------------------------------------------------------------
(* The front end on one source text: Parser::new, then Parser::parse, one  *)
(* iteration of its loop per step, then RustCodeGenerator::generate on the *)
(* expression returned.                                                    *)

Init ==
    /\ source \in Sources
    /\ parser = Parser_new(TextOf(source))
    /\ expressions = <<>>
    /\ pc = "parse"
    /\ result = <<>>
    /\ generated = <<>>
    /\ generator = RustCodeGenerator_new
    /\ inference = [env |-> TypeEnvironment_new]
    /\ last = <<>>
    /\ calls = 0
    /\ lexer = Lexer_new(<<>>)
    /\ tokens = <<>>

\* Parser::parse, one iteration of `while self.current_token.is_some()`
ParseExpression ==
    /\ pc = "parse"
    /\ parser.current_token # NoToken
    /\ LET parsed(r) ==
               /\ parser' = r.parser
               /\ IF r.ok
                  THEN /\ expressions' = Append(expressions, r.value)
                       /\ UNCHANGED <<pc, result>>
                  ELSE /\ result' = <<>>
                       /\ pc' = "done"
                       /\ UNCHANGED expressions
       IN parsed(parse_expression(parser))
    /\ UNCHANGED <<source, generated, generator, inference, last, calls, lexer, tokens>>

\* Parser::parse, after the loop
ParseReturn ==
    /\ pc = "parse"
    /\ parser.current_token = NoToken
    /\ result' = IF expressions = <<>> THEN <<>>
                 ELSE IF Len(expressions) = 1 THEN <<expressions[1]>>
                 ELSE <<Program(expressions)>>
    /\ pc' = "done"
    /\ UNCHANGED <<source, parser, expressions, generated, generator, inference, last, calls, lexer, tokens>>

\* RustCodeGenerator::new().generate(&expr) on the parsed expression
Generate ==
    /\ pc = "done"
    /\ result # <<>>
    /\ LET returns(r) ==
               /\ generated' = <<r>>
               /\ generator' = r.gen
       IN returns(generate(generator, result[1]))
    /\ pc' = "generated"
    /\ UNCHANGED <<source, parser, expressions, result, inference, last, calls, lexer, tokens>>

Next == ParseExpression \/ ParseReturn \/ Generate

Spec == Init /\ [][Next]_vars

-----------------------------------------------------------------------------
(* Claims about the parser and the generator, checked under Spec.          *)

input == parser.lexer.input

\* C1: Parser::parse never returns an expression while part of the input
\* text is left unconsumed: when it returns Some, the lexer stands at the end
\* of the text.
C1_ParseConsumesAllInput ==
    (pc = "done" /\ result # <<>>) => parser.lexer.position >= Len(input)

\* what a chain is expected to parse to: the left-nested tree
PrimaryExpr(text) == IF text = <<"2">> THEN Number(2) ELSE Identifier(text)

RECURSIVE LeftNested(_, _)
LeftNested(tree, links) ==
    IF links = <<>> THEN tree
    ELSE LeftNested([kind |-> "BinaryOp", left |-> tree, operator |-> Head(links)[1],
                     right |-> PrimaryExpr(Head(links)[2])], Tail(links))

\* the Rust spelling of each operator, inside its own pair of parentheses
Parenthesised(operator, l, r) ==
    IF operator = "Power" THEN "((" \o l \o " as i32).pow(" \o r \o " as u32))"
    ELSE "(" \o l \o " "
         \o (CASE operator = "Add" -> "+" [] operator = "Subtract" -> "-"
               [] operator = "Multiply" -> "*" [] operator = "Divide" -> "/"
               [] operator = "Equals" -> "==" [] operator = "NotEquals" -> "!="
               [] operator = "LessThan" -> "<" [] operator = "GreaterThan" -> ">")
         \o " " \o r \o ")"

RECURSIVE LeftNestedText(_, _)
LeftNestedText(text, links) ==
    IF links = <<>> THEN text
    ELSE LeftNestedText(Parenthesised(Head(links)[1], text, Str(Head(links)[2])),
                        Tail(links))

\* C2: flat-precedence law: a chain p0 op1 p1 ... opn pn parses to the
\* left-nested tree (((p0 op1 p1) op2 p2) ... opn pn), and the generated
\* statement nests the same way, every BinaryOp inside its own parentheses.
C2_FlatPrecedence ==
    source.family = "chain" =>
        /\ pc \in {"done", "generated"} =>
              result = <<LeftNested(PrimaryExpr(source.p0), source.links)>>
        /\ pc = "generated" =>
              /\ generated[1].ok
              /\ generated[1].text =
                    "fn main() {\n    "
                    \o LeftNestedText(Str(source.p0), source.links) \o ";\n}\n"

\* 2 + x * 2 has been parsed and generated (operators of different precedence
\* elsewhere, the tighter one last)
C2_Witness ==
    /\ pc = "generated"
    /\ source.family = "chain"
    /\ source.p0 = <<"2">>
    /\ source.links = << <<"Add", <<"x">>>>, <<"Multiply", <<"2">>>> >>
    /\ generated[1].text = "fn main() {\n    ((2 + x) * 2);\n}\n"

\* what each bracketed item is expected to contribute
IsParameterItem(item) == Len(item) > 1

ExpectedParameter(item) ==
    IF item[1] = "x" THEN [name |-> <<"x">>, type_ |-> [t |-> "Int32"]]
    ELSE [name |-> <<"y">>, type_ |-> [t |-> "Bool"]]

ExpectedArgument(item) ==
    IF item = <<"1">> THEN [kind |-> "Number", num |-> 1]
    ELSE [kind |-> "Identifier", name |-> item]

ParameterItems(items) == SelectSeq(items, IsParameterItem)

ArgumentItems(items) == SelectSeq(items, LAMBDA item : ~IsParameterItem(item))

\* C3: for Name[items], a trailing := gives a FunctionDefinition whose
\* parameters are exactly the parameter-shaped items in source order, with
\* the following expression as body; otherwise a FunctionCall on
\* Identifier(Name) whose arguments are exactly the expression-shaped items
\* in source order; items of the other shape are dropped, never a failure.
C3_DefinitionOrCall ==
    (source.family = "call" /\ pc = "done") =>
        result =
          << IF source.defined
             THEN [kind |-> "FunctionDefinition", name |-> <<"f">>,
                   parameters |-> [i \in 1..Len(ParameterItems(source.items)) |->
                                      ExpectedParameter(ParameterItems(source.items)[i])],
                   body |-> [kind |-> "Number", num |-> 1]]
             ELSE [kind |-> "FunctionCall",
                   function |-> [kind |-> "Identifier", name |-> <<"f">>],
                   arguments |-> [i \in 1..Len(ArgumentItems(source.items)) |->
                                     ExpectedArgument(ArgumentItems(source.items)[i])]] >>

\* f[y:Bool,1,x:Int32] has been parsed as a call: both parameters dropped
C3_Witness ==
    /\ pc = "done"
    /\ source.family = "call"
    /\ ~source.defined
    /\ source.items = << <<"y",":","B","o","o","l">>, <<"1">>,
                         <<"x",":","I","n","t","3","2">> >>
    /\ result # <<>>
    /\ result[1].kind = "FunctionCall"
    /\ Len(result[1].arguments) = 1

\* C4: parse failure unwinds with no recovery: when the current token is an
\* identifier followed by `[` and parse_function_or_call fails,
\* parse_expression fails too.
C4_FailureUnwinds ==
    (/\ pc = "parse"
     /\ cur(parser) = "Identifier"
     /\ parser.current_token.text \notin {NameCond, NameMatch, NameFunction}
     /\ is_function_syntax(parser)
     /\ ~parse_function_or_call(parser).ok)
    => ~parse_expression(parser).ok

-----------------------------------------------------------------------------
(* Expressions given to TypeInference::infer_expression.                   *)

FloatLit == Float(<<"2",".","5">>)

NameF == <<"f">>

NameG == <<"g">>

NameH == <<"h">>

NameK == <<"k">>

NameP == <<"P">>

\* definitions: each changes what later expressions are inferred against
DefPool ==
    { \* f[n: Int32] := n
      FunctionDefinition(NameF, <<TypeAnnotation(<<"n">>, Ty("Int32"))>>,
                         Identifier(<<"n">>)),
      \* f[n: Int32] := f[n]
      FunctionDefinition(NameF, <<TypeAnnotation(<<"n">>, Ty("Int32"))>>,
                         FunctionCall(Identifier(NameF), <<Identifier(<<"n">>)>>)),
      \* h[a: Int32, b: Bool] := b
      FunctionDefinition(NameH, <<TypeAnnotation(<<"a">>, Ty("Int32")),
                                  TypeAnnotation(<<"b">>, Ty("Bool"))>>,
                         Identifier(<<"b">>)),
      \* k[] := 1
      FunctionDefinition(NameK, <<>>, Number(1)),
      \* g[k: Bool] := k
      FunctionDefinition(NameG, <<TypeAnnotation(NameK, Ty("Bool"))>>, Identifier(NameK)),
      \* Print[a: Int32] := 1
      FunctionDefinition(NamePrintFn, <<TypeAnnotation(<<"a">>, Ty("Int32"))>>, Number(1)),
      \* Struct[k, [v: Bool]]
      StructDefinition(NameK, <<TypeAnnotation(<<"v">>, Ty("Bool"))>>),
      \* Struct[P, [x: Int32, y: Bool]]
      StructDefinition(NameP, <<TypeAnnotation(<<"x">>, Ty("Int32")),
                                TypeAnnotation(<<"y">>, Ty("Bool"))>>),
      \* Struct[Map, [a: Int32]]
      StructDefinition(NameMap, <<TypeAnnotation(<<"a">>, Ty("Int32"))>>) }

\* list literals of up to MaxItems literal elements
ListPool == { List(elements) :
                elements \in SeqsUpTo({Number(1), FloatLit, StringLit(<<"a">>)}, MaxItems) }

\* binary operations on literals
LiteralOperands == {Number(1), FloatLit, StringLit(<<"a">>), Boolean(TRUE)}

LiteralBinaryPool ==
    { BinaryOp(l, operator, r) :
        l \in LiteralOperands, operator \in {"Add", "Power", "Equals", "LessThan"},
        r \in LiteralOperands }

\* binary operations on two typed parameters: g[a: T1, b: T2] := a op b
PrimitiveTypes == { Ty(primitive) :
                      primitive \in {"Int8", "Int16", "Int32", "Int64", "Int128", "Int",
                                     "UInt8", "UInt16", "UInt32", "UInt64", "UInt128", "UInt",
                                     "Float32", "Float64", "Bool", "Char", "String"} }

MixedTypes == {Ty("Int32"), Ty("Int64"), Ty("Float64"), Ty("String")}

OperandTypePairs ==
    { <<ty, ty>> : ty \in PrimitiveTypes \cup {TyList(Ty("Int32"))} }
    \cup (MixedTypes \X MixedTypes)

TypedBinaryPool ==
    { FunctionDefinition(NameG, <<TypeAnnotation(<<"a">>, pair[1]),
                                  TypeAnnotation(<<"b">>, pair[2])>>,
                         BinaryOp(Identifier(<<"a">>), operator, Identifier(<<"b">>))) :
        pair \in OperandTypePairs, operator \in Operators }

\* calls of f, h, k, P, Print, Map and of the never-bound q, with up to
\* MaxArgs arguments; u is never bound
CallPool ==
    { FunctionCall(Identifier(name), arguments) :
        name \in {NameF, NameH, NameK, NameP, NamePrintFn, NameMap, <<"q">>},
        arguments \in SeqsUpTo({Number(1), Boolean(TRUE), Identifier(<<"u">>)}, MaxArgs) }

ExprPool == ListPool \cup LiteralBinaryPool \cup TypedBinaryPool \cup CallPool

-----------------------------------------------------------------------------
(* One TypeInference object: TypeInference::new(), then infer_expression   *)
(* on up to MaxCalls definitions and on one expression.                    *)

InitInfer ==
    /\ source = [family |-> "none"]
    /\ parser = Parser_new(<<>>)
    /\ expressions = <<>>
    /\ pc = "infer"
    /\ result = <<>>
    /\ generated = <<>>
    /\ generator = RustCodeGenerator_new
    /\ inference = [env |-> TypeEnvironment_new]
    /\ last = <<>>
    /\ calls = 0
    /\ lexer = Lexer_new(<<>>)
    /\ tokens = <<>>

\* what a caller of infer_expression sees: Ok(type) or Err(error)
Outcome(r) == IF r.ok THEN [ok |-> TRUE, type |-> r.type] ELSE [ok |-> FALSE, error |-> r.error]

\* inference.infer_expression(&expr) on a definition
InferDefinition ==
    /\ pc = "infer"
    /\ calls < MaxCalls
    /\ \E expr \in DefPool :
         LET r == infer_expression(inference.env, expr) IN
         /\ inference' = [env |-> r.env]
         /\ last' = <<[expr |-> expr, env |-> inference.env, result |-> Outcome(r)]>>
    /\ calls' = calls + 1
    /\ UNCHANGED <<source, parser, expressions, pc, result, generated, generator, lexer, tokens>>

\* inference.infer_expression(&expr) on an expression, the last call made
InferExpression ==
    /\ pc = "infer"
    /\ \E expr \in ExprPool :
         LET r == infer_expression(inference.env, expr) IN
         /\ inference' = [env |-> r.env]
         /\ last' = <<[expr |-> expr, env |-> inference.env, result |-> Outcome(r)]>>
    /\ pc' = "inferred"
    /\ UNCHANGED <<source, parser, expressions, result, generated, generator, calls, lexer, tokens>>

NextInfer == InferDefinition \/ InferExpression

SpecInfer == InitInfer /\ [][NextInfer]_vars

-----------------------------------------------------------------------------
(* Claims about type inference, checked under SpecInfer.                   *)

\* the last call of infer_expression: its expression, the environment it
\* ran against and what it returned
called == last # <<>>

expr == last[1].expr

env_before == last[1].env

returned == last[1].result

\* the type of a literal, by its kind
LiteralType(e) ==
    CASE e.kind = "Number" -> [t |-> "Int32"]
      [] e.kind = "Float" -> [t |-> "Float64"]
      [] e.kind = "String" -> [t |-> "String"]
      [] e.kind = "Boolean" -> [t |-> "Bool"]

Least(S) == CHOOSE i \in S : \A j \in S : i <= j

\* C5: infer on a list literal fails with CannotInfer when the list is
\* empty; otherwise it returns List(T), T the first element's type, exactly
\* when every element has type T, and the first element whose type U differs
\* from T makes it fail with TypeMismatch{expected: T, actual: U}.
C5_ListLiteral ==
    (called /\ expr.kind = "List") =>
        LET elements == expr.elements
            differing == { i \in 1..Len(elements) :
                             LiteralType(elements[i]) # LiteralType(elements[1]) }
        IN IF elements = <<>>
           THEN ~returned.ok /\ returned.error.error = "CannotInfer"
           ELSE IF differing = {}
           THEN /\ returned.ok
                /\ returned.type = [t |-> "List", inner |-> LiteralType(elements[1])]
           ELSE /\ ~returned.ok
                /\ returned.error.error = "TypeMismatch"
                /\ returned.error.expected = LiteralType(elements[1])
                /\ returned.error.actual = LiteralType(elements[Least(differing)])

\* [1, 2.5, "a"] has been inferred: the mismatch reported is the Float64 one
C5_Witness ==
    /\ called
    /\ expr = [kind |-> "List",
               elements |-> << [kind |-> "Number", num |-> 1],
                               [kind |-> "Float", float |-> <<"2",".","5">>],
                               [kind |-> "String", text |-> <<"a">>] >>]
    /\ ~returned.ok
    /\ returned.error.actual = [t |-> "Float64"]

\* the binary operation of the last call: a BinaryOp on two literals, or the
\* body `a op b` of g[a: T1, b: T2] := a op b
is_binary_case ==
    /\ called
    /\ \/ expr.kind = "BinaryOp"
       \/ expr.kind = "FunctionDefinition" /\ expr.body.kind = "BinaryOp"

binary_operator == IF expr.kind = "BinaryOp" THEN expr.operator ELSE expr.body.operator

left_type ==
    IF expr.kind = "BinaryOp" THEN LiteralType(expr.left) ELSE expr.parameters[1].type_

right_type ==
    IF expr.kind = "BinaryOp" THEN LiteralType(expr.right) ELSE expr.parameters[2].type_

\* the type inferred for the binary operation, when infer succeeded
binary_type == IF expr.kind = "BinaryOp" THEN returned.type ELSE returned.type.ret

NumericTypeNames ==
    {"Int8", "Int16", "Int32", "Int64", "Int128", "Int", "UInt8", "UInt16", "UInt32",
     "UInt64", "UInt128", "UInt", "Float32", "Float64"}

\* C6: for + - * / ^ on operands that both infer, infer succeeds exactly
\* when the two operand types are one and the same numeric type, and then
\* returns that type; in every other case it fails with TypeMismatch.
C6_Arithmetic ==
    (is_binary_case
     /\ binary_operator \in {"Add", "Subtract", "Multiply", "Divide", "Power"}) =>
        IF left_type = right_type /\ left_type.t \in NumericTypeNames
        THEN returned.ok /\ binary_type = left_type
        ELSE ~returned.ok /\ returned.error.error = "TypeMismatch"

\* g[a: Int64, b: Int64] := a * b has been inferred, with type Int64
C6_Witness ==
    /\ is_binary_case
    /\ binary_operator = "Multiply"
    /\ left_type = [t |-> "Int64"]
    /\ right_type = [t |-> "Int64"]
    /\ returned.ok
    /\ binary_type = [t |-> "Int64"]

\* C7: == and != succeed exactly when both operand types are identical;
\* < and > succeed exactly when both operand types are numeric, two
\* different numeric types included, and fail when an operand is not
\* numeric; every successful comparison has type Bool.
C7_Comparison ==
    (is_binary_case
     /\ binary_operator \in {"Equals", "NotEquals", "LessThan", "GreaterThan"}) =>
        /\ binary_operator \in {"Equals", "NotEquals"} =>
              (returned.ok <=> left_type = right_type)
        /\ binary_operator \in {"LessThan", "GreaterThan"} =>
              (returned.ok <=> (/\ left_type.t \in NumericTypeNames
                                /\ right_type.t \in NumericTypeNames))
        /\ returned.ok => binary_type = [t |-> "Bool"]

\* the environment in which a body is to be inferred: every parameter bound
\* to its declared type, over the bindings of env (the last parameter of a
\* name wins, a parameter shadows an outer binding)
WithParameters(env, parameters) ==
    LET names == { parameters[i].name : i \in 1..Len(parameters) }
        declared(n) ==
            parameters[Least({ i \in 1..Len(parameters) :
                                 /\ parameters[i].name = n
                                 /\ \A j \in (i + 1)..Len(parameters) :
                                        parameters[j].name # n })].type_
    IN [bindings |-> [n \in DOMAIN env.bindings \cup names |->
                         IF n \in names THEN declared(n) ELSE env.bindings[n]],
        structs |-> env.structs]

\* the type of a literal argument; the identifier u is bound nowhere
infers(argument) == argument.kind # "Identifier"

ArgumentTypes(arguments) == [i \in 1..Len(arguments) |-> LiteralType(arguments[i])]

is_call_case == called /\ expr.kind = "FunctionCall" /\ expr.function.kind = "Identifier"

BuiltinNames ==
    { <<"P","r","i","n","t">>, <<"T","u","p","l","e">>, <<"M","a","p">>,
      <<"F","i","l","t","e","r">>, <<"F","o","l","d">> }

\* C8, the definition: after infer succeeds on a FunctionDefinition, the
\* returned type and the binding of its name are Function(declared parameter
\* types in order, T), T the type of the body with every parameter bound.
C8_DefinitionType ==
    (called /\ expr.kind = "FunctionDefinition" /\ returned.ok) =>
        LET function_type ==
                [t |-> "Function",
                 params |-> [i \in 1..Len(expr.parameters) |-> expr.parameters[i].type_],
                 ret |-> infer_expression(WithParameters(env_before, expr.parameters),
                                          expr.body).type]
        IN /\ returned.type = function_type
           /\ expr.name \in DOMAIN inference.env.bindings
           /\ inference.env.bindings[expr.name] = function_type

\* C8, the later call: a call of a defined name with arguments of exactly
\* the declared parameter types has the type T of the definition.
C8_LaterCall ==
    (/\ is_call_case
     /\ expr.function.name \in DOMAIN env_before.bindings
     /\ \A i \in 1..Len(expr.arguments) : infers(expr.arguments[i])
     /\ ArgumentTypes(expr.arguments) = env_before.bindings[expr.function.name].params) =>
        /\ returned.ok
        /\ returned.type = env_before.bindings[expr.function.name].ret

\* C8 as stated: the definition's type and binding, and the type of every
\* later call of the name with arguments of the declared types.
C8_Definition ==
    C8_DefinitionType /\ C8_LaterCall

\* C8 amended: the later call has type T provided the name is not one of the
\* built-in names Print, Tuple, Map, Filter, Fold and no struct of that name
\* is registered.
C8_DefinitionAmended ==
    /\ C8_DefinitionType
    /\ (/\ is_call_case
        /\ expr.function.name \notin BuiltinNames
        /\ expr.function.name \notin DOMAIN env_before.structs) => C8_LaterCall

\* after k[] := 1 and g[k: Bool] := k, g is bound to Function([Bool], Bool):
\* the parameter k shadowed the function k
C8_Witness ==
    /\ called
    /\ expr.kind = "FunctionDefinition"
    /\ expr.name = <<"g">>
    /\ expr.body = [kind |-> "Identifier", name |-> <<"k">>]
    /\ <<"k">> \in DOMAIN env_before.bindings
    /\ returned.ok
    /\ inference.env.bindings[<<"g">>] =
          [t |-> "Function", params |-> <<[t |-> "Bool"]>>, ret |-> [t |-> "Bool"]]

\* C9: a self-recursive function definition type-checks: when the body of f
\* calls f with arguments matching f's parameters and f was not bound
\* before, infer on the definition succeeds.
C9_SelfRecursion ==
    (/\ called
     /\ expr.kind = "FunctionDefinition"
     /\ expr.body.kind = "FunctionCall"
     /\ expr.body.function = [kind |-> "Identifier", name |-> expr.name]
     /\ expr.body.arguments = [i \in 1..Len(expr.parameters) |->
                                  [kind |-> "Identifier", name |-> expr.parameters[i].name]]
     /\ expr.name \notin DOMAIN env_before.bindings) =>
        returned.ok

\* C10: calling a name bound to Function with n parameters (neither a
\* built-in nor a registered struct) with m arguments: m # n fails with
\* ArityMismatch{expected: n, actual: m} before any argument is inferred;
\* m = n fails at the first argument whose type differs from its parameter
\* type with TypeMismatch{expected: parameter type, actual: argument type},
\* and otherwise returns the function's return type.  A name with no binding
\* gives UndefinedIdentifier.
C10_UserCall ==
    (/\ is_call_case
     /\ expr.function.name \notin BuiltinNames
     /\ expr.function.name \notin DOMAIN env_before.structs) =>
        LET name == expr.function.name
            arguments == expr.arguments
        IN IF name \notin DOMAIN env_before.bindings
           THEN ~returned.ok
                /\ returned.error = [error |-> "UndefinedIdentifier", name |-> name]
           ELSE LET params == env_before.bindings[name].params
                    stops == { i \in 1..Len(arguments) :
                                 \/ ~infers(arguments[i])
                                 \/ LiteralType(arguments[i]) # params[i] }
                IN IF Len(arguments) # Len(params)
                   THEN /\ ~returned.ok
                        /\ returned.error.error = "ArityMismatch"
                        /\ returned.error.expected = Len(params)
                        /\ returned.error.actual = Len(arguments)
                        /\ inference.env = env_before
                   ELSE IF stops = {}
                   THEN /\ returned.ok
                        /\ returned.type = env_before.bindings[name].ret
                   ELSE infers(arguments[Least(stops)]) =>
                           /\ ~returned.ok
                           /\ returned.error.error = "TypeMismatch"
                           /\ returned.error.expected = params[Least(stops)]
                           /\ returned.error.actual = LiteralType(arguments[Least(stops)])

\* h[1, 1] has been inferred against h: Function([Int32, Bool], Bool): the
\* first argument matches, the second is reported
C10_Witness ==
    /\ is_call_case
    /\ expr.function.name = <<"h">>
    /\ <<"h">> \in DOMAIN env_before.bindings
    /\ expr.arguments = << [kind |-> "Number", num |-> 1], [kind |-> "Number", num |-> 1] >>
    /\ ~returned.ok
    /\ returned.error.error = "TypeMismatch"
    /\ returned.error.expected = [t |-> "Bool"]

\* C11, the definition: infer on a StructDefinition returns the unit type
\* and registers its name with its fields, leaving every other struct and
\* every binding as it was.
C11_StructRegistered ==
    (called /\ expr.kind = "StructDefinition") =>
        /\ returned = [ok |-> TRUE, type |-> [t |-> "Tuple", types |-> <<>>]]
        /\ DOMAIN inference.env.structs = DOMAIN env_before.structs \cup {expr.name}
        /\ inference.env.structs[expr.name] = expr.fields
        /\ \A n \in DOMAIN env_before.structs \ {expr.name} :
              inference.env.structs[n] = env_before.structs[n]
        /\ inference.env.bindings = env_before.bindings

\* C11, the call: with Name registered, Name[v1..vm] fails with
\* FieldCountMismatch{expected: number of fields, actual: m} when the counts
\* differ, fails with TypeMismatch{expected: field type, actual: value type}
\* at the first value whose type differs from its field's type, and
\* otherwise returns Custom(Name).
C11_Instantiation ==
    (is_call_case /\ expr.function.name \in DOMAIN env_before.structs) =>
        LET name == expr.function.name
            arguments == expr.arguments
            fields == env_before.structs[name]
            stops == { i \in 1..Len(arguments) :
                         \/ ~infers(arguments[i])
                         \/ LiteralType(arguments[i]) # fields[i].type_ }
        IN IF Len(arguments) # Len(fields)
           THEN /\ ~returned.ok
                /\ returned.error = [error |-> "FieldCountMismatch", struct_name |-> name,
                                     expected |-> Len(fields), actual |-> Len(arguments)]
           ELSE IF stops = {}
           THEN returned = [ok |-> TRUE, type |-> [t |-> "Custom", name |-> name]]
           ELSE infers(arguments[Least(stops)]) =>
                   /\ ~returned.ok
                   /\ returned.error.error = "TypeMismatch"
                   /\ returned.error.expected = fields[Least(stops)].type_
                   /\ returned.error.actual = LiteralType(arguments[Least(stops)])

\* C11 as stated: the definition registers the struct, and every later call
\* of its name is checked against the registered fields.
C11_Struct ==
    C11_StructRegistered /\ C11_Instantiation

\* C11 amended: the call is checked against the registered fields provided
\* the struct's name is not one of the built-in names Print, Tuple, Map,
\* Filter, Fold.
C11_StructAmended ==
    /\ C11_StructRegistered
    /\ (is_call_case /\ expr.function.name \notin BuiltinNames) => C11_Instantiation

\* P[true, 1] has been inferred against P: [x: Int32, y: Bool]: both values
\* differ from their fields, and the first one is reported
C11_Witness ==
    /\ is_call_case
    /\ expr.function.name = <<"P">>
    /\ <<"P">> \in DOMAIN env_before.structs
    /\ expr.arguments = << [kind |-> "Boolean", bool |-> TRUE], [kind |-> "Number", num |-> 1] >>
    /\ ~returned.ok
    /\ returned.error.error = "TypeMismatch"
    /\ returned.error.expected = [t |-> "Int32"]
    /\ returned.error.actual = [t |-> "Bool"]

-----------------------------------------------------------------------------
(* One TypeInference object: TypeInference::new(), at most one definition  *)
(* of x, then infer_expression on one Match.                               *)

NameX == <<"x">>

\* the scrutinees: Int32, Option(Int32), Result(Int32, String),
\* Result(Int32, Int32), Tuple([Int32, Bool]), List(Int32), and the unbound u
ScrutineePool ==
    { Number(1), ExprSome(Number(1)), ExprNone, ExprOk(Number(1)), ExprErr(Number(1)),
      Tuple(<<Number(1), Boolean(TRUE)>>), List(<<Number(1), Number(1)>>),
      Identifier(<<"u">>) }

PatternPool ==
    { PatWildcard, PatLiteral(Number(1)), PatLiteral(StringLit(<<"a">>)), PatVariable(NameX),
      PatConstructor(<<"S","o","m","e">>, <<PatVariable(NameX)>>),
      PatConstructor(<<"S","o","m","e">>, <<PatLiteral(StringLit(<<"a">>))>>),
      PatConstructor(<<"N","o","n","e">>, <<>>),
      PatConstructor(<<"O","k">>, <<PatVariable(NameX)>>),
      PatConstructor(<<"E","r","r">>, <<PatLiteral(Number(1))>>),
      PatTuple(<<PatVariable(NameX), PatLiteral(Boolean(TRUE))>>),
      PatTuple(<<PatVariable(NameX)>>),
      PatList(<<PatLiteral(Number(1)), PatVariable(NameX)>>),
      PatList(<<PatLiteral(StringLit(<<"a">>))>>) }

\* arm results: two literals and the identifier a pattern may bind
ArmResultPool == { Number(1), StringLit(<<"a">>), Identifier(NameX) }

MatchPool ==
    { Match(value, arms) :
        value \in ScrutineePool, arms \in SeqsUpTo(PatternPool \X ArmResultPool, MaxArms) }

\* inference.infer_expression on x[] := "a", once, before the Match
InferBinding ==
    /\ pc = "infer"
    /\ calls = 0
    /\ LET inferred(e, r) ==
               /\ inference' = [env |-> r.env]
               /\ last' = <<[expr |-> e, env |-> inference.env, result |-> Outcome(r)]>>
           define(e) == inferred(e, infer_expression(inference.env, e))
       IN define(FunctionDefinition(NameX, <<>>, StringLit(<<"a">>)))
    /\ calls' = calls + 1
    /\ UNCHANGED <<source, parser, expressions, pc, result, generated, generator, lexer, tokens>>

\* inference.infer_expression(&expr) on a Match, the last call made
InferMatch ==
    /\ pc = "infer"
    /\ \E e \in MatchPool :
         LET inferred(r) ==
                 /\ inference' = [env |-> r.env]
                 /\ last' = <<[expr |-> e, env |-> inference.env, result |-> Outcome(r)]>>
         IN inferred(infer_expression(inference.env, e))
    /\ pc' = "inferred"
    /\ UNCHANGED <<source, parser, expressions, result, generated, generator, calls, lexer, tokens>>

NextMatch == InferBinding \/ InferMatch

SpecMatch == InitInfer /\ [][NextMatch]_vars

-----------------------------------------------------------------------------
(* Claims about Match, checked under SpecMatch.                            *)

RECURSIVE Compatible(_, _)
\* a pattern is compatible with a type: Some/None only against Option, Ok/Err
\* only against Result, a tuple pattern only against a Tuple of its length
\* with compatible components, a list pattern only against a List with every
\* sub-pattern compatible with the element type, a literal only against its
\* own type
Compatible(pattern, ty) ==
    CASE pattern.pat \in {"Wildcard", "Variable"} -> TRUE
      [] pattern.pat = "Literal" -> LiteralType(pattern.expr) = ty
      [] pattern.pat = "Constructor" ->
            CASE pattern.name = <<"S","o","m","e">> ->
                    /\ ty.t = "Option"
                    /\ Len(pattern.patterns) = 1
                    /\ Compatible(pattern.patterns[1], ty.inner)
              [] pattern.name = <<"N","o","n","e">> ->
                    ty.t = "Option" /\ pattern.patterns = <<>>
              [] pattern.name = <<"O","k">> ->
                    /\ ty.t = "Result"
                    /\ Len(pattern.patterns) = 1
                    /\ Compatible(pattern.patterns[1], ty.ok_type)
              [] pattern.name = <<"E","r","r">> ->
                    /\ ty.t = "Result"
                    /\ Len(pattern.patterns) = 1
                    /\ Compatible(pattern.patterns[1], ty.err_type)
              [] OTHER -> FALSE
      [] pattern.pat = "Tuple" ->
            /\ ty.t = "Tuple"
            /\ Len(pattern.patterns) = Len(ty.types)
            /\ \A i \in 1..Len(pattern.patterns) : Compatible(pattern.patterns[i], ty.types[i])
      [] pattern.pat = "List" ->
            /\ ty.t = "List"
            /\ \A i \in 1..Len(pattern.patterns) : Compatible(pattern.patterns[i], ty.inner)

RECURSIVE Bound(_, _)
\* the types a compatible pattern binds x to, in binding order
Bound(pattern, ty) ==
    CASE pattern.pat = "Variable" -> <<ty>>
      [] pattern.pat = "Constructor" /\ pattern.patterns # <<>> ->
            Bound(pattern.patterns[1],
                  CASE pattern.name = <<"S","o","m","e">> -> ty.inner
                    [] pattern.name = <<"O","k">> -> ty.ok_type
                    [] pattern.name = <<"E","r","r">> -> ty.err_type)
      [] pattern.pat = "Tuple" ->
            Concat([i \in 1..Len(pattern.patterns) |-> Bound(pattern.patterns[i], ty.types[i])])
      [] pattern.pat = "List" ->
            Concat([i \in 1..Len(pattern.patterns) |-> Bound(pattern.patterns[i], ty.inner)])
      [] OTHER -> <<>>

is_match_case == called /\ expr.kind = "Match"

\* the scrutinee's type, <<>> when it has none
scrutinee == infer_expression(env_before, expr.value)

\* the type of the result of an arm whose pattern is compatible with the
\* scrutinee's type ty: <<>> when the pattern is not, or when the result is
\* an x that nothing binds
ArmType(arm, ty) ==
    IF ~Compatible(arm[1], ty) THEN <<>>
    ELSE IF arm[2].kind # "Identifier" THEN <<LiteralType(arm[2])>>
    ELSE IF Bound(arm[1], ty) # <<>>
         THEN <<Bound(arm[1], ty)[Len(Bound(arm[1], ty))]>>
    ELSE IF arm[2].name \in DOMAIN env_before.bindings
         THEN <<env_before.bindings[arm[2].name]>>
    ELSE <<>>

\* C12: a Match on a scrutinee of type S succeeds only if every arm's pattern
\* is compatible with S and every arm's result has the type T of the first
\* arm's result, and then has type T; when the first arm that is not so is
\* one whose result has another type U, it fails with
\* TypeMismatch{expected: T, actual: U}; with no arms it fails with
\* CannotInfer.
C12_Match ==
    (is_match_case /\ scrutinee.ok) =>
        LET arms == expr.arms
            S == scrutinee.type
            good(i) == /\ ArmType(arms[i], S) # <<>>
                       /\ ArmType(arms[i], S) = ArmType(arms[1], S)
            stops == { i \in 1..Len(arms) : ~good(i) }
            differs(i) == ArmType(arms[i], S) # <<>>
        IN /\ returned.ok =>
                /\ arms # <<>>
                /\ stops = {}
                /\ returned.type = ArmType(arms[1], S)[1]
           /\ arms = <<>> =>
                ~returned.ok /\ returned.error.error = "CannotInfer"
           /\ (stops # {} /\ Least(stops) > 1 /\ differs(Least(stops))) =>
                /\ ~returned.ok
                /\ returned.error.error = "TypeMismatch"
                /\ returned.error.expected = ArmType(arms[1], S)[1]
                /\ returned.error.actual = ArmType(arms[Least(stops)], S)[1]

\* Match[Some[1], [Some[x], x], [None, "a"]] has been inferred: both patterns
\* fit Option(Int32), the first arm has type Int32 and the second String
C12_Witness ==
    /\ is_match_case
    /\ expr.value = [kind |-> "Some", value |-> [kind |-> "Number", num |-> 1]]
    /\ Len(expr.arms) = 2
    /\ expr.arms[1] = << [pat |-> "Constructor", name |-> <<"S","o","m","e">>,
                         patterns |-> << [pat |-> "Variable", name |-> <<"x">>] >>],
                        [kind |-> "Identifier", name |-> <<"x">>] >>
    /\ expr.arms[2] = << [pat |-> "Constructor", name |-> <<"N","o","n","e">>,
                         patterns |-> <<>>],
                        [kind |-> "String", text |-> <<"a">>] >>
    /\ ~returned.ok
    /\ returned.error.error = "TypeMismatch"
    /\ returned.error.expected = [t |-> "Int32"]
    /\ returned.error.actual = [t |-> "String"]

-----------------------------------------------------------------------------
(* One RustCodeGenerator: RustCodeGenerator::new(), then generate on one   *)
(* expression after another.                                               *)

NameMain == <<"m","a","i","n">>

PointFields == <<TypeAnnotation(<<"x">>, Ty("Int32")), TypeAnnotation(<<"a","B">>, Ty("Bool"))>>

\* what a Program is made of
ElementPool ==
    { \* main[] := 1
      FunctionDefinition(NameMain, <<>>, Number(1)),
      \* g[] := P[1, true]
      FunctionDefinition(NameG, <<>>,
                         FunctionCall(Identifier(NameP), <<Number(1), Boolean(TRUE)>>)),
      \* Struct[P, [x: Int32, aB: Bool]]
      StructDefinition(NameP, PointFields),
      \* Struct[Map, [x: Int32, aB: Bool]]
      StructDefinition(NameMap, PointFields),
      \* 1
      Number(1),
      \* P[1, true]
      FunctionCall(Identifier(NameP), <<Number(1), Boolean(TRUE)>>),
      \* P[1]
      FunctionCall(Identifier(NameP), <<Number(1)>>),
      \* Map[1, true]
      FunctionCall(Identifier(NameMap), <<Number(1), Boolean(TRUE)>>) }

\* the expressions given to generate: one element, or a Program
GenPool ==
    ElementPool \cup { Program(es) : es \in SeqsUpTo(ElementPool, MaxProgram) }

InitGen ==
    /\ source = [family |-> "none"]
    /\ parser = Parser_new(<<>>)
    /\ expressions = <<>>
    /\ pc = "generate"
    /\ result = <<>>
    /\ generated = <<>>
    /\ generator = RustCodeGenerator_new
    /\ inference = [env |-> TypeEnvironment_new]
    /\ last = <<>>
    /\ calls = 0
    /\ lexer = Lexer_new(<<>>)
    /\ tokens = <<>>

\* generator.generate(&expr)
GenerateExpression ==
    /\ pc = "generate"
    /\ \E e \in GenPool :
         LET returns(r) ==
                 /\ generated' = <<r>>
                 /\ generator' = r.gen
                 /\ last' = <<[expr |-> e, gen |-> generator]>>
         IN returns(generate(generator, e))
    /\ UNCHANGED <<source, parser, expressions, pc, result, inference, calls, lexer, tokens>>

NextGen == GenerateExpression

SpecGen == InitGen /\ [][NextGen]_vars

-----------------------------------------------------------------------------
(* Claims about code generation, checked under SpecGen.                    *)

\* the last call of generate: its expression, the generator it ran on and
\* what it returned
gen_called == last # <<>>

gen_expr == last[1].expr

gen_before == last[1].gen

gen_returned == generated[1]

\* how often needle occurs in text
CountOf(needle, text) ==
    Cardinality({ i \in 1..(Len(text) - Len(needle) + 1) :
                    SubSeq(text, i, i + Len(needle) - 1) = needle })

\* the struct table after the definitions among items have been generated
RECURSIVE RegisteredAfter(_, _)
RegisteredAfter(structs, items) ==
    IF items = <<>> THEN structs
    ELSE RegisteredAfter(
             IF Head(items).kind = "StructDefinition"
             THEN [n \in DOMAIN structs \cup {Head(items).name} |->
                      IF n = Head(items).name
                      THEN [i \in 1..Len(Head(items).fields) |->
                               to_snake_case(Head(items).fields[i].name)]
                      ELSE structs[n]]
             ELSE structs,
             Tail(items))

\* the definitions of es, each rendered at top level against the structs
\* registered before it, a blank line after each
RECURSIVE DefinitionsText(_, _)
DefinitionsText(structs, items) ==
    IF items = <<>> THEN ""
    ELSE generate_top_level_item([indent_level |-> 0, struct_definitions |-> structs],
                                 Head(items)).text
         \o "\n" \o DefinitionsText(RegisteredAfter(structs, <<Head(items)>>), Tail(items))

\* the statements, each rendered one level deep against all structs
RECURSIVE StatementsText(_, _)
StatementsText(structs, statements) ==
    IF statements = <<>> THEN ""
    ELSE generate_statement([indent_level |-> 1, struct_definitions |-> structs],
                            Head(statements)).text
         \o StatementsText(structs, Tail(statements))

ProgramText(structs, es) ==
    LET items == SelectSeq(es, LAMBDA e : e.kind \in {"FunctionDefinition", "StructDefinition"})
        statements ==
            SelectSeq(es, LAMBDA e : e.kind \notin {"FunctionDefinition", "StructDefinition"})
    IN DefinitionsText(structs, items)
       \o (IF statements = <<>>
           THEN "fn main() {\n    // Stub main function for compilation\n}\n"
           ELSE "fn main() {\n"
                \o StatementsText(RegisteredAfter(structs, items), statements)
                \o "}\n")

\* C13: a successful generate on Program(es) gives the definitions of es in
\* encounter order, then one `fn main` holding the other expressions as
\* statements in encounter order (a stub `fn main` when there are none); and
\* every successful output contains exactly one function `fn main`.
C13_ProgramLayout ==
    (gen_called /\ gen_returned.ok) =>
        /\ gen_expr.kind = "Program" =>
              gen_returned.text = ProgramText(gen_before.struct_definitions,
                                              gen_expr.expressions)
        /\ CountOf("fn main(", gen_returned.text) = 1

\* the struct definitions generate meets at top level in e
TopLevelStructs(e) ==
    IF e.kind = "Program" THEN SelectSeq(e.expressions, LAMBDA d : d.kind = "StructDefinition")
    ELSE IF e.kind = "StructDefinition" THEN <<e>>
    ELSE <<>>

\* C14, the table: generate changes the struct table only by the struct
\* definitions it generates, each registered under its name with its
\* snake-cased field names in declaration order.
C14_TableGrowth ==
    gen_called =>
        LET before == gen_before.struct_definitions
            after == generator.struct_definitions
            defs == TopLevelStructs(gen_expr)
            names == { defs[i].name : i \in 1..Len(defs) }
        IN /\ DOMAIN before \subseteq DOMAIN after
           /\ DOMAIN after \subseteq DOMAIN before \cup names
           /\ \A n \in DOMAIN before \ names : after[n] = before[n]
           /\ gen_returned.ok => after = RegisteredAfter(before, defs)

\* the text of a literal argument
LiteralText(e) == IF e.kind = "Number" THEN "1" ELSE "true"

\* a call as the claim renders it against a struct table: the struct literal
\* with the registered field names when the name is registered, the call of
\* the snake-cased name otherwise
ClaimedCall(structs, call) ==
    LET name == call.function.name
        values == [i \in 1..Len(call.arguments) |-> LiteralText(call.arguments[i])]
    IN IF name \in DOMAIN structs
       THEN Str(name) \o " { "
            \o join([i \in 1..Len(values) |-> structs[name][i] \o ": " \o values[i]], ", ")
            \o " }"
       ELSE to_snake_case(name) \o "(" \o join(values, ", ") \o ")"

\* a call the claim makes generate fail on: its name is registered with
\* another number of fields
Miscounted(structs, call) ==
    /\ call.function.name \in DOMAIN structs
    /\ Len(structs[call.function.name]) # Len(call.arguments)

\* the calls of e rendered as statements of main, and the struct table they
\* are rendered against
StatementCalls(e) ==
    IF e.kind = "Program" THEN SelectSeq(e.expressions, LAMBDA d : d.kind = "FunctionCall")
    ELSE IF e.kind = "FunctionCall" THEN <<e>>
    ELSE <<>>

\* the positions in a Program of the functions whose body is a call
BodyCallPositions(e) ==
    IF e.kind # "Program" THEN {}
    ELSE { i \in 1..Len(e.expressions) :
             /\ e.expressions[i].kind = "FunctionDefinition"
             /\ e.expressions[i].body.kind = "FunctionCall" }

\* C14, the calls: a call rendered as a statement is the
\* struct literal exactly when its name was registered before (by an earlier
\* generate or by a definition of the same Program, all of which are
\* generated before main), the call of the snake-cased name otherwise; a
\* call in a function body is rendered against the definitions generated
\* before that function; a registered name with another number of arguments
\* makes generate fail; a Program with one definition of a struct declares
\* it once.  The names concerned are those that are not built-in and, with
\* registered_builtins, the built-in names a struct is registered under.
CallsRendered(registered_builtins) ==
    gen_called =>
        LET before == gen_before.struct_definitions
            at_main == RegisteredAfter(before, TopLevelStructs(gen_expr))
            concerned(name, structs) ==
                \/ name \notin BuiltinNames
                \/ registered_builtins /\ name \in DOMAIN structs
            calls_made == SelectSeq(StatementCalls(gen_expr),
                                    LAMBDA c : concerned(c.function.name, at_main))
            structs_at(i) ==
                RegisteredAfter(before,
                    TopLevelStructs(Program(SubSeq(gen_expr.expressions, 1, i - 1))))
            defs == TopLevelStructs(gen_expr)
        IN /\ (\E i \in 1..Len(calls_made) : Miscounted(at_main, calls_made[i]))
                 => ~gen_returned.ok
           /\ gen_returned.ok =>
                /\ \A i \in 1..Len(calls_made) :
                      CountOf("    " \o ClaimedCall(at_main, calls_made[i]) \o ";\n",
                              gen_returned.text) >= 1
                /\ \A i \in BodyCallPositions(gen_expr) :
                      concerned(gen_expr.expressions[i].body.function.name, structs_at(i)) =>
                          CountOf("    " \o ClaimedCall(structs_at(i),
                                                        gen_expr.expressions[i].body)
                                  \o "\n}", gen_returned.text) >= 1
                /\ \A i \in 1..Len(defs) :
                      (\A j \in 1..Len(defs) : defs[j].name = defs[i].name => j = i) =>
                          CountOf("pub struct " \o Str(defs[i].name) \o " {",
                                  gen_returned.text) = 1

\* C14 as stated: also a call of a built-in name is the struct literal once
\* a struct of that name is registered
C14_StructTable ==
    C14_TableGrowth /\ CallsRendered(TRUE)

\* C14 amended: the calls are rendered so provided the name is not one of
\* the built-in names Print, Tuple, Map, Filter, Fold.
C14_StructTableAmended ==
    C14_TableGrowth /\ CallsRendered(FALSE)

\* Program([P[1, true], Struct[P, [x: Int32, aB: Bool]]]) has been generated
\* on a fresh generator: the definition is generated first, so the call
\* written before it is the struct literal with the snake-cased field names
C14_Witness ==
    /\ gen_called
    /\ gen_before.struct_definitions = <<>>
    /\ gen_expr.kind = "Program"
    /\ Len(gen_expr.expressions) = 2
    /\ gen_expr.expressions[1].kind = "FunctionCall"
    /\ gen_expr.expressions[1].function.name = <<"P">>
    /\ gen_expr.expressions[2].kind = "StructDefinition"
    /\ gen_expr.expressions[2].name = <<"P">>
    /\ gen_returned.ok
    /\ CountOf("pub struct P {", gen_returned.text) = 1
    /\ CountOf("    P { x: 1, a_b: true };\n", gen_returned.text) = 1
    /\ generator.struct_definitions[<<"P">>] = <<"x", "a_b">>

\* what a caller of generate sees: Ok(text) or Err
GenOutcome(r) == IF r.ok THEN [ok |-> TRUE, text |-> r.text] ELSE [ok |-> FALSE]

\* C15: generate keeps no state between invocations: whatever generate
\* calls were made before on the same generator, generate(e) returns what
\* it returns on a freshly created generator.
C15_Stateless ==
    gen_called =>
        GenOutcome(gen_returned) = GenOutcome(generate(RustCodeGenerator_new, gen_expr))

-----------------------------------------------------------------------------
(* Claims about tuple literals, checked under Spec.                        *)

\* the text of the source as one string
source_text == Str(TextOf(source))

\* C16: a tuple literal written with `, ` between its elements and (e,) for
\* one element parses to the tuple of its elements, nested tuples likewise,
\* and generate gives its text back as the statement of main: () for the
\* empty tuple, (e,) with its comma, the elements in order otherwise.
C16_TupleRoundTrip ==
    (source.family = "tuple" /\ source.comma) =>
        /\ pc \in {"done", "generated"} => result = <<source.tree>>
        /\ pc = "generated" =>
              /\ generated[1].ok
              /\ generated[1].text = "fn main() {\n    " \o source_text \o ";\n}\n"

\* ((1, x), (x,)) has been parsed and generated
C16_Witness ==
    /\ source.family = "tuple"
    /\ source.comma
    /\ source_text = "((1, x), (x,))"
    /\ pc = "generated"
    /\ generated[1].ok
    /\ generated[1].text = "fn main() {\n    ((1, x), (x,));\n}\n"

\* C17: (e,) parses to Tuple([e]); (e), one expression in parentheses
\* without the comma, does not parse to a one-element Tuple.
C17_TrailingComma ==
    (/\ source.family = "tuple"
     /\ Len(source.tree.elements) = 1
     /\ pc = "done") =>
        LET e == source.tree.elements[1]
            one_element == <<[kind |-> "Tuple", elements |-> <<e>>]>>
        IN IF source.comma
           THEN result = one_element
           ELSE result # one_element

\* C18: Struct[P, [f1: T1, ..., fn: Tn]], n >= 0, parses to the
\* StructDefinition named P holding the n fields with their types in source
\* order, and P[v1, ..., vk] parses to a FunctionCall on Identifier(P) with
\* the k arguments.
C18_StructSyntax ==
    /\ (source.family = "struct" /\ pc = "done") =>
          result = <<StructDefinition(<<"P">>, source.fields)>>
    /\ (source.family = "instance" /\ pc = "done") =>
          result = <<FunctionCall(Identifier(<<"P">>), source.values)>>

\* C19: the lexer gives the token Underscore for a standalone _, and a match
\* arm [_, r] parses to the arm (Pattern::Wildcard, r).
C19_Wildcard ==
    /\ (source.family = "wildcard" /\ pc = "parse" /\ expressions = <<>>) =>
          parser.current_token.type = "Underscore"
    /\ (source.family = "match" /\ pc = "done") =>
          \A i \in 1..Len(source.arms) :
              source.arms[i][1] = PatWildcard =>
                  /\ result # <<>>
                  /\ result[1].kind = "Match"
                  /\ Len(result[1].arms) = Len(source.arms)
                  /\ result[1].arms[i] = <<PatWildcard, source.arms[i][2]>>

\* the brackets of a Cond that hold two expressions, and those that hold one
CondPairs(brackets) == SelectSeq(brackets, LAMBDA b : Len(b) = 2)

CondDefaults(brackets) == SelectSeq(brackets, LAMBDA b : Len(b) = 1)

C21_MatchArms ==
    (source.family = "match" /\ source.arms # <<>> /\ pc = "done") =>
        result = <<Match(Identifier(<<"x">>), source.arms)>>

-----------------------------------------------------------------------------
(* The lexer driven directly: Lexer::new on a text, then next_token and    *)
(* peek_token calls in any order; or Parser::new and Parser::parse on the  *)
(* same text.                                                              *)

\* texts of up to MaxChunks chunks
LexChunks ==
    { <<"(","*">>, <<"(","*","(","*">>, <<"*",")">>, <<" ">>, <<"x">>,
      <<"=">>, <<"!">>, <<"@">> }

\* runs of decimal digits: below, at and above i32::MAX, with leading zeros,
\* and 2^32 + 1
DigitRuns ==
    { <<"0">>, <<"1","2">>, <<"0","0","7">>,
      <<"2","1","4","7","4","8","3","6","4","7">>,
      <<"2","1","4","7","4","8","3","6","4","8">>,
      <<"0","2","1","4","7","4","8","3","6","4","7">>,
      <<"4","2","9","4","9","6","7","2","9","7">>,
      <<"9","9","9","9","9","9","9","9","9","9","9">>,
      <<"0","0","0","0","0","0","0","0","0","0","1">> }

\* what stands before and after a run of digits
RunPrefixes == { <<>>, <<" ">>, <<"(","*","1","*",")">>, <<"[">> }

RunSuffixes == { <<>>, <<"x">>, <<" ","2">>, <<"]">>, <<"@">> }

LexSources ==
    { [family |-> "chunks", chunks |-> cs] : cs \in SeqsUpTo(LexChunks, MaxChunks) }
    \cup { [family |-> "number", before |-> b, digits |-> d, after |-> a] :
              b \in RunPrefixes, d \in DigitRuns, a \in RunSuffixes }

LexTextOf(src) ==
    IF src.family = "chunks" THEN Concat(src.chunks)
    ELSE src.before \o src.digits \o src.after

InitLex ==
    /\ source \in LexSources
    /\ pc \in {"lex", "parse"}
    /\ lexer = Lexer_new(LexTextOf(source))
    /\ tokens = <<>>
    /\ parser = Parser_new(LexTextOf(source))
    /\ expressions = <<>>
    /\ result = <<>>
    /\ generated = <<>>
    /\ generator = RustCodeGenerator_new
    /\ inference = [env |-> TypeEnvironment_new]
    /\ last = <<>>
    /\ calls = 0

\* lexer.next_token()
NextToken ==
    /\ pc = "lex"
    /\ calls < MaxTokens
    /\ LET returns(r) ==
               /\ lexer' = r.lexer
               /\ tokens' = Append(tokens, r.token)
               /\ last' = <<[op |-> "next_token", before |-> lexer, token |-> r.token]>>
       IN returns(next_token(lexer))
    /\ calls' = calls + 1
    /\ UNCHANGED <<source, parser, expressions, pc, result, generated, generator, inference>>

\* lexer.peek_token(), which takes &self
PeekToken ==
    /\ pc = "lex"
    /\ last' = <<[op |-> "peek_token", before |-> lexer, token |-> peek_token(lexer)]>>
    /\ UNCHANGED <<source, parser, expressions, pc, result, generated, generator, inference,
                   calls, lexer, tokens>>

NextLex == NextToken \/ PeekToken \/ ParseExpression \/ ParseReturn

SpecLex == InitLex /\ [][NextLex]_vars

-----------------------------------------------------------------------------
(* Claims about the lexer, checked under SpecLex. *)

\* the last call made on lexer was op
lex_called(op) == pc = "lex" /\ last # <<>> /\ last[1].op = op

lex_before == last[1].before

lex_token == last[1].token

\* C22: peek_token leaves the lexer as it was (input and position), and the
\* call that follows a peek, a next_token or another peek, returns the value
\* the peek returned.
C22_Peek ==
    /\ [](lex_called("peek_token") => lexer = lex_before)
    /\ [][lex_called("peek_token") => last'[1].token = lex_token]_vars

\* in "x *)", * has been peeked after the next_token call that returned x
C22_Witness ==
    /\ lex_called("peek_token")
    /\ Str(lexer.input) = "x *)"
    /\ tokens = <<TokIdentifier(<<"x">>)>>
    /\ lexer.position = 1
    /\ lex_token = Tok("Multiply")

\* C23: once a next_token call has returned none, every later next_token
\* call on the same lexer returns none as well.
C23_StreamEnds ==
    pc = "lex" =>
        \A i \in 1..Len(tokens) : \A j \in i..Len(tokens) :
            tokens[i] = NoToken => tokens[j] = NoToken

\* the maximal run of decimal digits of text that starts at position p
RECURSIVE DigitRunAt(_, _)
DigitRunAt(text, p) ==
    IF p < Len(text) /\ text[p + 1] \in DigitChars
    THEN <<text[p + 1]>> \o DigitRunAt(text, p + 1)
    ELSE <<>>

RECURSIVE StripZeros(_)
StripZeros(run) ==
    IF Len(run) > 1 /\ Head(run) = "0" THEN StripZeros(Tail(run)) ELSE run

I32MaxDigits == <<"2","1","4","7","4","8","3","6","4","7">>

\* a <= b for two digit sequences of the same length
RECURSIVE DigitsLeq(_, _)
DigitsLeq(a, b) ==
    \/ a = <<>>
    \/ digit_value(Head(a)) < digit_value(Head(b))
    \/ Head(a) = Head(b) /\ DigitsLeq(Tail(a), Tail(b))

\* whether the run's decimal value is at most 2147483647
FitsI32(run) ==
    \/ Len(StripZeros(run)) < Len(I32MaxDigits)
    \/ /\ Len(StripZeros(run)) = Len(I32MaxDigits)
       /\ DigitsLeq(StripZeros(run), I32MaxDigits)

\* the decimal value of a run that fits
RECURSIVE RunValue(_)
RunValue(run) ==
    IF run = <<>> THEN 0
    ELSE 10 * RunValue(SubSeq(run, 1, Len(run) - 1)) + digit_value(run[Len(run)])

\* where the token of the last next_token call starts: after the blanks and
\* comments that precede it
token_start == skip_whitespace(lex_before).position

at_digit_run ==
    /\ lex_called("next_token")
    /\ token_start < Len(lexer.input)
    /\ lexer.input[token_start + 1] \in DigitChars

\* C24: a next_token call that stands at a run of decimal digits returns one
\* Number token for the whole run, never none: its value is the decimal value
\* of the run if that is at most 2147483647 and 0 otherwise, and the lexer is
\* left right after the run.
C24_DigitRun ==
    at_digit_run =>
        /\ lex_token =
              TokNumber(IF FitsI32(DigitRunAt(lexer.input, token_start))
                        THEN RunValue(StripZeros(DigitRunAt(lexer.input, token_start)))
                        ELSE 0)
        /\ lexer.position = token_start + Len(DigitRunAt(lexer.input, token_start))

\* 2147483648, after a comment and before x, has been lexed to Number(0)
C24_Witness ==
    /\ at_digit_run
    /\ Str(lexer.input) = "(*1*)2147483648x"
    /\ lex_token = TokNumber(0)
    /\ lexer.position = 15

\* where the first character that is not a blank stands before the last call
first_char == skip_spaces(lex_before).position

\* the last next_token call found (* where a token could start
at_comment ==
    /\ lex_called("next_token")
    /\ first_char + 1 < Len(lexer.input)
    /\ lexer.input[first_char + 1] = "("
    /\ lexer.input[first_char + 2] = "*"

\* the positions after that (* at which *) stands
ClosePositions ==
    { q \in (first_char + 2)..(Len(lexer.input) - 2) :
        lexer.input[q + 1] = "*" /\ lexer.input[q + 2] = ")" }

FirstClose == CHOOSE q \in ClosePositions : \A r \in ClosePositions : q <= r

\* the lexer standing right after the first *)
Resumed == [input |-> lexer.input, position |-> FirstClose + 2]

\* C25: a next_token call that finds (* where a token could start, with a *)
\* after it, returns what next_token returns on the text right after the
\* first such *) and leaves the lexer where that call leaves it: the token
\* holds no character of the comment, and a (* inside the comment opens
\* nothing.
C25_Comment ==
    (at_comment /\ ClosePositions # {}) =>
        /\ lex_token = next_token(Resumed).token
        /\ lexer = next_token(Resumed).lexer
        /\ lexer.position >= FirstClose + 2

\* in (*(**)*) the comment ends at the first *): the call returned the * that
\* follows it
C25_Witness ==
    /\ at_comment
    /\ Str(lexer.input) = "(*(**)*)"
    /\ lex_before.position = 0
    /\ lex_token = Tok("Multiply")
    /\ lexer.position = 7

\* C30: a next_token call that finds (* where a token could start, with no
\* *) after it, returns none, and no character after the (* is lexed.
C30_UnterminatedComment ==
    (at_comment /\ ClosePositions = {}) =>
        /\ lex_token = NoToken
        /\ lexer.position = Len(lexer.input)

-----------------------------------------------------------------------------
(* Nested scopes: on one TypeInference object, x may be bound first, and   *)
(* then a Match or a definition with parameters is inferred, or a program  *)
(* is checked.                                                             *)

\* definitions whose parameters or body patterns bind x or y, and a list
\* with a definition as an element
ScopedDefPool ==
    { \* g[x: Int32] := x
      FunctionDefinition(NameG, <<TypeAnnotation(NameX, Ty("Int32"))>>, Identifier(NameX)),
      \* g[y: Bool] := x
      FunctionDefinition(NameG, <<TypeAnnotation(<<"y">>, Ty("Bool"))>>, Identifier(NameX)),
      \* g[x: Int32, y: Bool] := y
      FunctionDefinition(NameG, <<TypeAnnotation(NameX, Ty("Int32")),
                                  TypeAnnotation(<<"y">>, Ty("Bool"))>>,
                         Identifier(<<"y">>)),
      \* g[y: Bool] := Match[y, [x, x]]
      FunctionDefinition(NameG, <<TypeAnnotation(<<"y">>, Ty("Bool"))>>,
                         Match(Identifier(<<"y">>),
                               << <<PatVariable(NameX), Identifier(NameX)>> >>)),
      \* g[x: Int32] := [1, "a"]
      FunctionDefinition(NameG, <<TypeAnnotation(NameX, Ty("Int32"))>>,
                         List(<<Number(1), StringLit(<<"a">>)>>)),
      \* [k[] := 1, "a"]
      List(<<FunctionDefinition(NameK, <<>>, Number(1)), StringLit(<<"a">>)>>) }

\* the expressions of the programs given to check_program; u is never bound
CheckPool ==
    { \* k[] := 1
      FunctionDefinition(NameK, <<>>, Number(1)),
      \* Struct[P, [x: Int32]]
      StructDefinition(NameP, <<TypeAnnotation(NameX, Ty("Int32"))>>),
      Number(1),
      Identifier(<<"u">>),
      \* []
      List(<<>>) }

\* inference.infer_expression(&expr) on a definition with parameters, the
\* last call made
InferScoped ==
    /\ pc = "infer"
    /\ \E e \in ScopedDefPool :
         LET inferred(r) ==
                 /\ inference' = [env |-> r.env]
                 /\ last' = <<[expr |-> e, env |-> inference.env, result |-> Outcome(r)]>>
         IN inferred(infer_expression(inference.env, e))
    /\ pc' = "inferred"
    /\ UNCHANGED <<source, parser, expressions, result, generated, generator, calls, lexer, tokens>>

\* inference.check_program(&expressions), the last call made
CheckProgram ==
    /\ pc = "infer"
    /\ \E exprs \in SeqsUpTo(CheckPool, MaxProgram) :
         LET checked(r) ==
                 /\ inference' = [env |-> r.env]
                 /\ last' = <<[expr |-> [kind |-> "check_program", expressions |-> exprs],
                              env |-> inference.env,
                              result |-> IF r.ok THEN [ok |-> TRUE]
                                         ELSE [ok |-> FALSE, error |-> r.error]]>>
         IN checked(check_program(inference.env, exprs))
    /\ pc' = "inferred"
    /\ UNCHANGED <<source, parser, expressions, result, generated, generator, calls, lexer, tokens>>

NextScope == InferBinding \/ InferMatch \/ InferScoped \/ CheckProgram

SpecScope == InitInfer /\ [][NextScope]_vars

-----------------------------------------------------------------------------
(* Claims about nested scopes, checked under SpecScope.                    *)

\* the names a pattern binds
RECURSIVE PatternVariables(_)
PatternVariables(pattern) ==
    IF pattern.pat = "Variable" THEN {pattern.name}
    ELSE IF pattern.pat \in {"Constructor", "Tuple", "List"}
    THEN UNION { PatternVariables(pattern.patterns[i]) : i \in 1..Len(pattern.patterns) }
    ELSE {}

env_after == inference.env

\* the call left every binding but that of name as it was, and added none
SameBindingsBut(names) ==
    /\ env_after.structs = env_before.structs
    /\ DOMAIN env_before.bindings \subseteq DOMAIN env_after.bindings
    /\ \A n \in DOMAIN env_after.bindings \ names :
          /\ n \in DOMAIN env_before.bindings
          /\ env_after.bindings[n] = env_before.bindings[n]

\* C26, parameters: inferring a definition, with or without success, adds no
\* parameter to the environment and changes the type of no name but, on
\* success, that of the function defined.
C26_Parameters ==
    (called /\ expr.kind = "FunctionDefinition") =>
        IF returned.ok THEN SameBindingsBut({expr.name}) ELSE env_after = env_before

\* C26, arms: inferring a Match leaves the environment as it was, and a
\* variable that only the first arm's pattern binds is not visible in the
\* second arm: its result x has the type the environment had for x, and is an
\* undefined identifier if it had none.
C26_Arms ==
    is_match_case =>
        /\ env_after = env_before
        /\ (/\ scrutinee.ok
            /\ Len(expr.arms) = 2
            /\ ArmType(expr.arms[1], scrutinee.type) # <<>>
            /\ NameX \in PatternVariables(expr.arms[1][1])
            /\ Compatible(expr.arms[2][1], scrutinee.type)
            /\ NameX \notin PatternVariables(expr.arms[2][1])
            /\ expr.arms[2][2] = Identifier(NameX)) =>
               /\ ~returned.ok
               /\ returned.error =
                     IF NameX \in DOMAIN env_before.bindings
                     THEN TypeMismatch(ArmType(expr.arms[1], scrutinee.type)[1],
                                       env_before.bindings[NameX], "match arm result")
                     ELSE UndefinedIdentifier(NameX)

\* C26: bindings made in a nested scope never escape it.
C26_Scopes == C26_Parameters /\ C26_Arms

\* after x[] := "a", g[x: Int32] := x has been inferred: g takes and returns
\* Int32 and x is still the function it was
C26_Witness ==
    /\ called
    /\ expr = FunctionDefinition(NameG, <<TypeAnnotation(NameX, Ty("Int32"))>>,
                                 Identifier(NameX))
    /\ NameX \in DOMAIN env_before.bindings
    /\ returned = [ok |-> TRUE, type |-> TyFunction(<<Ty("Int32")>>, Ty("Int32"))]
    /\ env_after.bindings[NameX] = TyFunction(<<>>, Ty("String"))
    /\ DOMAIN env_after.bindings = {NameX, NameG}

\* C27: whenever infer_expression or check_program returns an error, the
\* environment (bindings and struct table) is the one before the call.
C27_FailsAtomically ==
    (called /\ ~returned.ok) => env_after = env_before

-----------------------------------------------------------------------------
(* Claims about unclosed brackets, checked under Spec. *)

Closer(opener) == CASE opener = "[" -> "]" [] opener = "(" -> ")" [] opener = "{" -> "}"

\* the delimiters of text that are open after it, innermost first; <<"?">>
\* after a closing delimiter that closes nothing
RECURSIVE OpenAfter(_, _)
OpenAfter(text, open) ==
    IF text = <<>> THEN open
    ELSE IF Head(text) \in {"[", "(", "{"} THEN OpenAfter(Tail(text), <<Head(text)>> \o open)
    ELSE IF Head(text) \in {"]", ")", "}"}
    THEN IF open # <<>> /\ Head(text) = Closer(Head(open))
         THEN OpenAfter(Tail(text), Tail(open))
         ELSE <<"?">>
    ELSE OpenAfter(Tail(text), open)

\* C28: parse returns an expression for a text of lists, tuples and maps
\* only if every delimiter opened in it is closed: when the text ends before
\* the closing delimiter of a list, a tuple or a map, parse returns none.
C28_ClosedDelimiters ==
    (source.family = "brackets" /\ pc = "done" /\ result # <<>>) =>
        OpenAfter(TextOf(source), <<>>) = <<>>

-----------------------------------------------------------------------------
(* Claims about termination, checked under SpecLex. *)

\* what is left for a parser to consume: the characters its lexer has not
\* read, and the token it holds
LeftToConsume(p) ==
    Len(p.lexer.input) - p.lexer.position + (IF p.current_token = NoToken THEN 0 ELSE 1)

\* the number of tokens next_token returns on lx up to the end of its input
\* or the first unrecognised character
RECURSIVE TokensFrom(_)
TokensFrom(lx) ==
    LET counted(r) ==
            IF r.token # NoToken THEN 1 + TokensFrom(r.lexer)
            ELSE IF lx.position < r.lexer.position /\ r.lexer.position < Len(lx.input)
            THEN TokensFrom(r.lexer)
            ELSE 0
    IN counted(next_token(lx))

\* the lexer's position is within its input, a next_token call never moves
\* it back, and a call that returns a token moves it forward
C29_LexerAdvances ==
    /\ lexer.position \in 0..Len(lexer.input)
    /\ parser.lexer.position \in 0..Len(parser.lexer.input)
    /\ lex_called("next_token") =>
          /\ lexer.position >= lex_before.position
          /\ lex_token # NoToken => lexer.position > lex_before.position

====
